---------------------------- MODULE Spec2Model ----------------------------
(***************************************************************************)
(* Model of the RF/WiFi diagnostic pipeline of meraki_mcp:                 *)
(*   - WifiTroubleshooter (wifi/wifi_troubleshooter.py): the troubleshoot  *)
(*     pipeline, its knowledge-base initialisation guard, API validation   *)
(*     and recommendation assembly;                                        *)
(*   - RFAnalyzer.batch_analyze (rf/analyzer.py).                          *)
(*                                                                         *)
(* Text is modelled as a sequence of tokens (words or opaque chunks of a   *)
(* fixed message); str.lower() maps every token to its lower-case form and *)
(* Python's `term in text` is containment of a contiguous token sequence.  *)
(***************************************************************************)
EXTENDS Integers, Sequences, FiniteSets, TLC

\* ------------------------------------------------------------------ bounds
\* Number of troubleshoot / initialize_knowledge_base calls made one after
\* the other on one troubleshooter.
MaxCalls == 2
\* Number of coroutines running on the same troubleshooter at once.
NumTasks == 2
\* Filler words between the verb and the object of a knowledge-base answer.
MaxFill == 1
\* Length of the list handed to batch_analyze.
MaxBatch == 3

\* ------------------------------------------------------------------- text
\* str.lower() on one token.  Chunks of fixed messages that hold none of the
\* searched words are written in lower case already.
Lower(tok) ==
    CASE tok = "Disable"         -> "disable"
      [] tok = "Turn off"        -> "turn off"
      [] tok = "Removing"        -> "removing"
      [] tok = "Open-Enhanced"   -> "open-enhanced"
      [] tok = "Open"            -> "open"
      [] tok = "Enhanced"        -> "enhanced"
      [] tok = "Specific client" -> "specific client"
      [] OTHER                   -> tok

LowerStr(s) == [i \in 1..Len(s) |-> Lower(s[i])]

\* Python `term in s` for token sequences.
Contains(s, term) ==
    \E i \in 0..(Len(s) - Len(term)) :
        \A j \in 1..Len(term) : s[i + j] = term[j]

\* any(term in s for term in terms): the test without .lower()
ContainsAnyCaseSensitive(s, terms) == \E term \in terms : Contains(s, term)

\* any(term in s.lower() for term in terms)
ContainsAnyLower(s, terms) == \E term \in terms : Contains(LowerStr(s), term)

\* The term list of the knowledge-base answer check.
KbUnsafeTerms ==
    { <<"disable", "open-enhanced">>, <<"turn off", "open-enhanced">>,
      <<"disable", "open", "enhanced">>, <<"turn off", "open", "enhanced">>,
      <<"removing", "open-enhanced">>, <<"removing", "open", "enhanced">> }

\* The term list of the final filter over the recommendations.
FilterUnsafeTerms ==
    { <<"disable", "open-enhanced">>, <<"turn off", "open-enhanced">>,
      <<"disable", "open", "enhanced">>, <<"turn off", "open", "enhanced">>,
      <<"removing", "open-enhanced">>, <<"removing", "open", "enhanced">> }

\* The term list of the annotation branch of the final filter.
MentionTerms == { <<"open-enhanced">>, <<"open", "enhanced">> }

\* ----------------------------------------------------------------- inputs
\* ssid_data as the code reads it: `given` is the truth value of the dict
\* (None and {} are both falsy), the other fields are the .get() results
\* with the defaults of the code applied.
NoSsid ==
    [given |-> FALSE, enabled |-> TRUE, broadcasting |-> TRUE, authMode |-> "none",
     pmf_required |-> FALSE, restricted |-> FALSE, has_number |-> FALSE,
     has_name |-> FALSE]

AuthModes == {"psk", "open", "open-enhanced", "wpa3"}

\* An SSID that is given is a plain PSK SSID with an SSID number, changed in
\* one respect (not broadcasting, PMF required, restricted by availability
\* tags, another auth mode, Open-Enhanced with PMF required, no SSID number),
\* enabled or disabled.
SsidInputs ==
    {NoSsid} \cup
    { s \in [given : {TRUE}, enabled : BOOLEAN, broadcasting : BOOLEAN,
             authMode : AuthModes, pmf_required : BOOLEAN, restricted : BOOLEAN,
             has_number : BOOLEAN, has_name : {TRUE}] :
        \/ Cardinality({f \in {"b", "p", "r", "a", "n"} :
                \/ (f = "b" /\ ~s.broadcasting)
                \/ (f = "p" /\ s.pmf_required)
                \/ (f = "r" /\ s.restricted)
                \/ (f = "a" /\ s.authMode # "psk")
                \/ (f = "n" /\ ~s.has_number)}) <= 1
        \/ (s.authMode = "open-enhanced" /\ s.pmf_required /\ s.broadcasting
              /\ ~s.restricted /\ s.has_number) }

\* client_data: status / failureReason / signal.
NoClient == [given |-> FALSE, status |-> "none", failureReason |-> "unknown",
             has_signal |-> FALSE, signal |-> 0]

ClientInputs ==
    {NoClient} \cup
    { [given |-> TRUE, status |-> "failed", failureReason |-> r,
       has_signal |-> FALSE, signal |-> 0] :
          r \in {"auth_failure", "dhcp_failure", "unknown"} } \cup
    { [given |-> TRUE, status |-> "associated", failureReason |-> "unknown",
       has_signal |-> TRUE, signal |-> g] : g \in {0 - 71, 0 - 70} }

\* issue_description: None, or a text made of phrases.  PhraseKeywords gives,
\* for each phrase, the search terms of the code that occur in its
\* lower-cased text ("connect to <name>" stands for a match of the regular
\* expression r'connect to ([A-Za-z0-9_-]+)').
Phrases == {"cant_connect_macbook", "both_mac_windows", "multiple_devices_slow", "open_slow", "hello"}

PhraseKeywords(p) ==
    CASE p = "cant_connect_macbook" -> {"can't connect", "connect to <name>", "mac"}
            \* "Can't connect to OfficeWiFi from my MacBook"
      [] p = "both_mac_windows"     -> {"both", "mac", "windows", "laptop"}
            \* "Both Mac and Windows laptops are affected"
      [] p = "multiple_devices_slow" -> {"multiple devices", "device", "slow"}
            \* "Multiple devices are slow"
      [] p = "open_slow"            -> {"open", "slow"}
            \* "The open guest network is slow"
      [] OTHER                      -> {}
            \* "hello"

NoDescription == [is_none |-> TRUE, phrases |-> {}]

DescriptionInputs ==
    {NoDescription} \cup
    { [is_none |-> FALSE, phrases |-> ps] :
        ps \in {{}} \cup {{p} : p \in Phrases} }

\* `term in description.lower()` (the empty text for None)
Mentions(desc, term) == \E p \in desc.phrases : term \in PhraseKeywords(p)

\* truth value of issue_description: None and "" are falsy
DescGiven(desc) == ~desc.is_none /\ desc.phrases # {}

\* ----------------------------------------------------------------- issues
NoDetails ==
    [ssid_enabled |-> "absent", ssid_visible |-> "absent", auth_type |-> "absent",
     radius_configured |-> "absent", ap_status |-> "absent",
     failed_connections |-> 0 - 1]

\* WifiIssue.__init__: `kw` names a keyword argument the call passes beyond
\* the six parameters of __init__ ("" when there is none).  __init__ has no
\* parameter `details`, so a call that passes one raises TypeError (exc).
WifiIssue(issue_type, issue_subtype, severity, description, kw) ==
    [exc |-> kw # "",
     val |-> [issue_type |-> issue_type, issue_subtype |-> issue_subtype,
              severity |-> severity, description |-> description,
              validation_details |-> NoDetails]]

\* A run of constructor calls in program order: whether one of them raises,
\* and the issues appended before the first that does.
Raises(calls) == \E i \in 1..Len(calls) : calls[i].exc

FirstRaise(calls) ==
    IF Raises(calls)
    THEN CHOOSE i \in 1..Len(calls) :
            calls[i].exc /\ \A j \in 1..(i - 1) : ~calls[j].exc
    ELSE Len(calls) + 1

Appended(calls) == [i \in 1..(FirstRaise(calls) - 1) |-> calls[i].val]

When(cond, call) == IF cond THEN <<call>> ELSE <<>>

\* -------------------------------------------------------------- detection
\* "client compatibility language" of _check_ssid_issues
ClientIssuesMentioned(desc) ==
    \E term \in {"can't connect", "cannot connect", "unable to connect",
                 "compatibility", "older device", "legacy device"} :
        Mentions(desc, term)

\* _check_ssid_issues: the constructor calls it makes, in program order.
\* The ssid_disabled branch returns at once.
check_ssid_issues(nd) ==
    LET ssid == nd.ssid
        cim  == ClientIssuesMentioned(nd.desc)
    IN IF ~ssid.enabled
       THEN << WifiIssue("configuration", "ssid_disabled", 90,
                         <<"The SSID is disabled in the network configuration">>, "") >>
       ELSE
           When(ssid.enabled /\ ~ssid.broadcasting,
                WifiIssue("connectivity", "ssid_not_broadcasting", 80,
                          <<"The SSID is enabled but not broadcasting">>, ""))
        \o When(ssid.pmf_required /\ cim,
                WifiIssue("compatibility", "pmf_required_compatibility", 75,
                          <<"Required Protected Management Frames (PMF) may cause compatibility issues with some clients">>,
                          "details"))
        \o When(ssid.authMode = "open-enhanced" /\ cim /\ ssid.pmf_required,
                WifiIssue("compatibility", "open_enhanced_pmf_config", 70,
                          <<"Open-Enhanced", "is correctly enabled (critical security feature), but PMF being required might cause compatibility issues">>,
                          "details"))
        \o When(ssid.restricted,
                WifiIssue("configuration", "restricted_ap_availability", 80,
                          <<"SSID is restricted to APs with tags:", "tags">>, "details"))
        \o When(ssid.authMode \in {"wpa3", "wpa3-enterprise"} /\ cim,
                WifiIssue("compatibility", "wpa3_only_compatibility", 70,
                          <<"WPA3-only mode may not be supported by all client devices">>,
                          "details"))
        \o When(ssid.authMode = "open" /\ Mentions(nd.desc, "open"),
                WifiIssue("security", "open_network_issues", 60,
                          <<"Open", "network (not", "Open-Enhanced", ") may be causing connection issues with some client devices">>,
                          ""))

\* _check_client_issues without its rule on the description
check_client_issues_client_data_only(nd) ==
    LET client == nd.client
    IN     When(client.status = "failed" /\ client.failureReason = "auth_failure",
                WifiIssue("connectivity", "authentication_failure", 85,
                          <<"Client failed to authenticate to the network">>, ""))
        \o When(client.status = "failed" /\ client.failureReason = "dhcp_failure",
                WifiIssue("connectivity", "dhcp_failure", 75,
                          <<"Client failed to obtain an IP address via DHCP">>, ""))
        \o When(client.status = "failed"
                  /\ client.failureReason \notin {"auth_failure", "dhcp_failure"},
                WifiIssue("connectivity", "connection_failure", 70,
                          <<"Client connection failed with reason:", client.failureReason>>, ""))
        \o When(client.has_signal /\ client.signal < 0 - 70,
                WifiIssue("performance", "low_signal_strength", 60,
                          <<"Client has poor signal strength:", "signal", "dBm">>, ""))

\* _check_client_issues
check_client_issues(nd) ==
    LET client == nd.client
        desc   == nd.desc
    IN     When(client.status = "failed" /\ client.failureReason = "auth_failure",
                WifiIssue("connectivity", "authentication_failure", 85,
                          <<"Client failed to authenticate to the network">>, ""))
        \o When(client.status = "failed" /\ client.failureReason = "dhcp_failure",
                WifiIssue("connectivity", "dhcp_failure", 75,
                          <<"Client failed to obtain an IP address via DHCP">>, ""))
        \o When(client.status = "failed"
                  /\ client.failureReason \notin {"auth_failure", "dhcp_failure"},
                WifiIssue("connectivity", "connection_failure", 70,
                          <<"Client connection failed with reason:", client.failureReason>>, ""))
        \o When(client.has_signal /\ client.signal < 0 - 70,
                WifiIssue("performance", "low_signal_strength", 60,
                          <<"Client has poor signal strength:", "signal", "dBm">>, ""))
        \o When((Mentions(desc, "mac") /\ Mentions(desc, "windows"))
                  \/ Mentions(desc, "multiple devices"),
                WifiIssue("compatibility", "cross_platform_issues", 65,
                          <<"Issue affects multiple device types, suggesting SSID configuration incompatibility">>,
                          ""))

\* ----------------------------------------------------- free-text fallback
ClientIndicators ==
    {"client", "device", "phone", "laptop", "computer", "user", "iphone",
     "android", "mac", "windows", "ios", "specific"}

\* the first issue of _analyze_issue_description: the "can't connect" family
\* with its refinements, else the performance family
ConnectivityOrPerformance(desc) ==
    LET has_client_indicator == \E term \in ClientIndicators : Mentions(desc, term)
        cant == \E term \in {"can't connect", "cannot connect", "unable to connect",
                             "unable to join"} : Mentions(desc, term)
        perf == \E term \in {"slow", "performance", "dropping", "intermittent"} :
                    Mentions(desc, term)
    IN IF cant THEN
          IF Mentions(desc, "password") \/ Mentions(desc, "credentials")
          THEN << WifiIssue("connectivity", "authentication_failure", 80,
                    IF has_client_indicator
                    THEN <<"Specific client", "s are experiencing authentication failures when connecting">>
                    ELSE <<"Clients are unable to connect due to possible authentication issues">>,
                    "") >>
          ELSE IF Mentions(desc, "see the network") \/ Mentions(desc, "find the network")
          THEN << WifiIssue("connectivity", "ssid_not_visible", 80,
                    IF has_client_indicator
                    THEN <<"Specific client", "s cannot see or find the wireless network">>
                    ELSE <<"Clients cannot see or find the wireless network">>,
                    "") >>
          ELSE IF Mentions(desc, "immediately") /\ Mentions(desc, "error")
          THEN << WifiIssue("connectivity", "immediate_connection_failure", 85,
                    IF has_client_indicator
                    THEN <<"Specific client", "s immediately receive an error when trying to connect">>
                    ELSE <<"Clients immediately receive an error when trying to connect">>,
                    "") >>
          ELSE IF has_client_indicator
          THEN << WifiIssue("connectivity", "client_specific_connection_failure", 82,
                    <<"Specific client", "s are unable to connect while others may be connecting successfully">>,
                    "") >>
          ELSE << WifiIssue("connectivity", "connection_failure", 80,
                    <<"Clients are unable to connect to the wireless network">>, "") >>
       ELSE When(perf,
                 WifiIssue("performance", "poor_performance", 60,
                    <<"Network performance issues affecting client experience">>, ""))

\* the multi-device handling at the end of _analyze_issue_description
MultiDeviceBoost(desc, issues) ==
    IF Mentions(desc, "multiple devices")
         \/ (Mentions(desc, "both") /\ Mentions(desc, "mac") /\ Mentions(desc, "windows"))
    THEN [i \in 1..Len(issues) |->
            [issues[i] EXCEPT
               !.severity = IF @ < 90 THEN @ + 10 ELSE @,
               !.description = @ \o <<"(affects multiple device types)">>]]
    ELSE issues

\* _analyze_issue_description: the issues as its constructor calls made
\* them, before the multi-device handling
constructed_from_description(desc) ==
    LET calls ==
              ConnectivityOrPerformance(desc)
           \o When(Mentions(desc, "connect to <name>"),
                   WifiIssue("connectivity", "ssid_specific_issue", 75,
                             <<"Issue specifically affects the", "name", "SSID">>, ""))
           \o When(Mentions(desc, "mac"),
                   WifiIssue("compatibility", "mac_specific_issue", 50,
                             <<"Issue may be specific to Mac devices">>, ""))
           \o When(Mentions(desc, "windows"),
                   WifiIssue("compatibility", "windows_specific_issue", 50,
                             <<"Issue may be specific to Windows devices">>, ""))
    IN Appended(calls)

\* _analyze_issue_description: the value of its return statement, which is
\* the list of issues alone.
analyze_issue_description(desc) ==
    MultiDeviceBoost(desc, constructed_from_description(desc))

\* _analyze_issue_description has not run
NoTextIssues == [constructed |-> <<>>, returned |-> <<>>]

\* Step 6 of troubleshoot:
\*     nlp_issues, extracted_context = await self._analyze_issue_description(...)
\*     issues.extend(nlp_issues)
\* The returned list is unpacked into two names: ValueError unless it holds
\* exactly two issues; when it does, nlp_issues is bound to the first
\* WifiIssue, which is not iterable, and extend raises TypeError.
fallback_text_analysis(issues, desc) ==
    LET returned == analyze_issue_description(desc)
        unpacks  == Len(returned) = 2
        iterable == FALSE    \* a WifiIssue defines no __iter__
    IN [exc |-> ~unpacks \/ ~iterable, issues |-> issues]

\* ------------------------------------------------- live accessor checks
\* Bounds of the lists the device accessor returns.
MaxAPs == 2
MaxRadios == 1
MaxClients == 1
MaxFailed == 1

\* All sequences over S of length at most n.
SeqsUpTo(S, n) == UNION { [1..k -> S] : k \in 0..n }

\* get_network_devices: a device is a wireless AP (model MR*) or not; an AP is
\* online or not and carries one of the SSID's availability tags or not.
Devices ==
    { [mr |-> FALSE, online |-> TRUE, tagged |-> FALSE] } \cup
    [mr : {TRUE}, online : BOOLEAN, tagged : BOOLEAN]

DevicesResponses ==
    { [throws |-> TRUE, aps |-> <<>>] } \cup
    { [throws |-> FALSE, aps |-> a] : a \in SeqsUpTo(Devices, MaxAPs) }

\* get_device_wireless_status: radios with a status and a channelUtilization
\* (0 when the key is missing).
Radios == [normal : BOOLEAN, util : {0, 70, 71}]

StatusResponses ==
    { [throws |-> TRUE, radios |-> <<>>] } \cup
    { [throws |-> FALSE, radios |-> r] : r \in SeqsUpTo(Radios, MaxRadios) }

\* get_network_clients: a client is wireless (ssid is not None) or not; a
\* wireless one is on the SSID named in ssid_data or not, has signal < -70 or
\* not, and uses 802.11a/b/g or not.
Clients ==
    { [wireless |-> FALSE, on_ssid |-> FALSE, poor |-> FALSE, legacy |-> FALSE] } \cup
    [wireless : {TRUE}, on_ssid : BOOLEAN, poor : BOOLEAN, legacy : BOOLEAN]

ClientsResponses ==
    { [throws |-> TRUE, clients |-> <<>>] } \cup
    { [throws |-> FALSE, clients |-> c] : c \in SeqsUpTo(Clients, MaxClients) }

\* get_network_wireless_failed_connections: the failureReason of each record.
FailedResponses ==
    { [throws |-> TRUE, records |-> <<>>] } \cup
    { [throws |-> FALSE, records |-> f] :
        f \in SeqsUpTo({"auth", "dhcp", "association", "other"}, MaxFailed) }

\* get_network_wireless_ssid
SsidResponses ==
    { [throws |-> TRUE, enabled |-> FALSE, hidden |-> FALSE, radius |-> FALSE] } \cup
    [throws : {FALSE}, enabled : BOOLEAN, hidden : BOOLEAN, radius : BOOLEAN]

Some(seq, P(_)) == \E i \in 1..Len(seq) : P(seq[i])
Count(seq, P(_)) == Cardinality({i \in 1..Len(seq) : P(seq[i])})

\* the per-radio loop of _check_ap_configurations
RECURSIVE RadioIssues(_)
RadioIssues(radios) ==
    IF radios = <<>> THEN <<>>
    ELSE LET radio == Head(radios) IN
           When(~radio.normal,
                WifiIssue("performance", "radio_status_issue", 70,
                          <<"AP radio (", "band", ") status is", "status">>, ""))
        \o When(radio.util > 70,
                WifiIssue("performance", "high_channel_utilization", 65,
                          <<"High channel utilization (", "utilization", "%) on", "band", "radio">>, ""))
        \o RadioIssues(Tail(radios))

\* _check_ap_configurations: the issues it returns.  Every exception raised
\* in its body, the TypeError of a constructor call included, is caught by
\* the outer handler, which returns the issues appended so far.
check_ap_configurations(ssid, devices, status) ==
    LET IsMr(d)     == d.mr
        Offline(d)  == d.mr /\ ~d.online
        Tagged(d)   == d.mr /\ d.tagged
        Untagged(d) == d.mr /\ ~d.tagged
        wireless    == Count(devices.aps, IsMr)
        with_tags   == Count(devices.aps, Tagged)
        calls ==
               When(Some(devices.aps, Offline),
                    WifiIssue("connectivity", "offline_access_points", 85,
                              <<"count", "access points are offline or in problematic state">>,
                              "details"))
            \o When(ssid.given /\ ssid.restricted /\ with_tags = 0,
                    WifiIssue("configuration", "no_aps_with_required_tags", 90,
                              <<"SSID requires APs with tags", "tags", ", but no APs have these tags">>,
                              "details"))
            \o When(ssid.given /\ ssid.restricted /\ with_tags # 0
                      /\ Some(devices.aps, Untagged) /\ with_tags < wireless,
                    WifiIssue("configuration", "some_aps_missing_required_tags", 75,
                              <<"Some APs are missing the required tags", "tags", "for SSID availability">>,
                              "details"))
    IN IF devices.throws THEN <<>>
       ELSE IF wireless = 0
       THEN Appended(<< WifiIssue("configuration", "no_wireless_aps", 90,
                            <<"No wireless access points detected in the network">>, "") >>)
       ELSE IF Raises(calls) THEN Appended(calls)
       ELSE IF status.throws THEN Appended(calls)
       ELSE Appended(calls) \o Appended(RadioIssues(status.radios))

\* _check_connected_clients: the issues it returns.
check_connected_clients(ssid, clients, failed) ==
    LET IsWireless(c) == c.wireless
        Poor(c)       == c.wireless /\ c.poor
        Legacy(c)     == c.wireless /\ c.legacy
        OnSsid(c)     == c.wireless /\ c.on_ssid
        IsAuth(r)     == r = "auth"
        IsDhcp(r)     == r = "dhcp"
        IsAssoc(r)    == r = "association"
        none_calls ==
            << WifiIssue("connectivity", "no_connected_clients", 80,
                         <<"No clients are connected to the", "name", "SSID">>, "") >>
        \* inside the inner try: its handler keeps the issues appended so far
        failed_calls ==
            IF failed.throws THEN <<>>
            ELSE   When(Some(failed.records, IsAuth),
                        WifiIssue("connectivity", "authentication_failures", 85,
                                  <<"count", "clients failed to authenticate to the network">>,
                                  "details"))
                \o When(Some(failed.records, IsDhcp),
                        WifiIssue("connectivity", "dhcp_failures", 80,
                                  <<"count", "clients failed to obtain IP addresses via DHCP">>,
                                  "details"))
                \o When(Some(failed.records, IsAssoc),
                        WifiIssue("connectivity", "association_failures", 75,
                                  <<"count", "clients failed to associate with the wireless network">>,
                                  "details"))
        some_calls ==
               When(Some(clients.clients, Poor),
                    WifiIssue("performance", "poor_signal_strength", 65,
                              <<"count", "clients have poor signal strength (< -70 dBm)">>,
                              "details"))
            \o When(Some(clients.clients, Legacy),
                    WifiIssue("performance", "legacy_clients", 60,
                              <<"count", "clients are using older 802.11 standards">>,
                              "details"))
            \o When(ssid.given /\ ssid.has_name /\ ~Some(clients.clients, OnSsid),
                    WifiIssue("connectivity", "no_clients_on_ssid", 75,
                              <<"No clients are connected to the", "name", "SSID specifically">>,
                              ""))
    IN IF clients.throws THEN <<>>
       ELSE IF ~Some(clients.clients, IsWireless) /\ ssid.given
       THEN Appended(none_calls \o failed_calls)
       ELSE IF Some(clients.clients, IsWireless)
       THEN Appended(some_calls)
       ELSE <<>>

\* ---------------------------------------------------------- API validation
BoolStr(b) == IF b THEN "true" ELSE "false"

NoResponse ==
    [ssid    |-> [throws |-> FALSE, enabled |-> FALSE, hidden |-> FALSE, radius |-> FALSE],
     devices |-> [throws |-> FALSE, aps |-> <<>>],
     status  |-> [throws |-> FALSE, radios |-> <<>>],
     failed  |-> [throws |-> FALSE, records |-> <<>>]]

IsSsidSubtype(issue) == issue.issue_subtype \in {"ssid_disabled", "ssid_not_broadcasting"}
IsAuthSubtype(issue) == issue.issue_subtype = "authentication_failure"
\* "performance" in issue.issue_type
IsPerformance(issue) == issue.issue_type = "performance"
IsClientSpecific(issue) == issue.issue_subtype = "client_specific_connection_failure"

\* What the accessor may answer to the calls _validate_with_api makes for
\* this issue (the calls it does not make keep the NoResponse placeholder).
\* Of the devices it reads the model alone and of the wireless status nothing
\* but whether the call raised: APs that are online and untagged, and a
\* status without radios, stand for the others.
ValidationResponses(issue) ==
    IF IsSsidSubtype(issue) \/ IsAuthSubtype(issue)
    THEN { [NoResponse EXCEPT !.ssid = r] : r \in SsidResponses }
    ELSE IF IsPerformance(issue)
    THEN { [NoResponse EXCEPT !.devices = d, !.status = st] :
             d \in { x \in DevicesResponses :
                       \A i \in 1..Len(x.aps) : x.aps[i].online /\ ~x.aps[i].tagged },
             st \in { x \in StatusResponses : x.radios = <<>> } }
    ELSE IF IsClientSpecific(issue)
    THEN { [NoResponse EXCEPT !.failed = f] : f \in FailedResponses }
    ELSE { NoResponse }

\* _validate_with_api.  `threw` records that an accessor call it made raised
\* (every such exception is caught inside the method).
validate_with_api(issue, ssid, resp) ==
    LET IsMr(d) == d.mr
        unvalidated(threw) ==
            [validated |-> FALSE, validation_details |-> NoDetails, threw |-> threw]
    IN IF IsSsidSubtype(issue)
       THEN IF ssid.given /\ ssid.has_number
            THEN IF resp.ssid.throws THEN unvalidated(TRUE)
                 ELSE [validated |-> TRUE, threw |-> FALSE,
                       validation_details |->
                          [NoDetails EXCEPT !.ssid_enabled = BoolStr(resp.ssid.enabled),
                                            !.ssid_visible = BoolStr(~resp.ssid.hidden)]]
            ELSE unvalidated(FALSE)
       ELSE IF IsAuthSubtype(issue)
       THEN IF ssid.given /\ ssid.has_number
            THEN IF resp.ssid.throws THEN unvalidated(TRUE)
                 ELSE [validated |-> TRUE, threw |-> FALSE,
                       validation_details |->
                          [NoDetails EXCEPT !.auth_type = "authMode",
                                            !.radius_configured =
                                                IF resp.ssid.radius THEN "true" ELSE "absent"]]
            ELSE unvalidated(FALSE)
       ELSE IF IsPerformance(issue)
       THEN IF resp.devices.throws THEN unvalidated(TRUE)
            ELSE IF ~Some(resp.devices.aps, IsMr) THEN unvalidated(FALSE)
            ELSE IF resp.status.throws THEN unvalidated(TRUE)
            ELSE [validated |-> TRUE, threw |-> FALSE,
                  validation_details |-> [NoDetails EXCEPT !.ap_status = "status"]]
       ELSE IF IsClientSpecific(issue)
       THEN IF resp.failed.throws THEN unvalidated(TRUE)
            ELSE [validated |-> TRUE, threw |-> FALSE,
                  validation_details |->
                     [NoDetails EXCEPT !.failed_connections = Len(resp.failed.records)]]
       ELSE unvalidated(FALSE)

\* the loop body, were an enabled re-fetch to raise the severity by 30
apply_validation_raising(issue, result) ==
    IF ~result.validated THEN issue
    ELSE LET d  == result.validation_details
             i1 == [issue EXCEPT !.validation_details = d]
             i2 == IF d.ssid_enabled # "absent"
                      /\ i1.issue_subtype = "ssid_disabled" /\ d.ssid_enabled = "true"
                   THEN [i1 EXCEPT !.severity = @ + 30]
                   ELSE i1
         IN IF d.failed_connections > 0
            THEN [i2 EXCEPT !.severity = @ + 10,
                            !.description = @ \o <<"(Confirmed:", "count", "failed connection attempts)">>]
            ELSE i2

\* the loop body, were the severity lowered for both SSID subtypes
apply_validation_both_subtypes(issue, result) ==
    IF ~result.validated THEN issue
    ELSE LET d  == result.validation_details
             i1 == [issue EXCEPT !.validation_details = d]
             i2 == IF d.ssid_enabled # "absent"
                      /\ IsSsidSubtype(i1) /\ d.ssid_enabled = "true"
                   THEN [i1 EXCEPT !.severity = @ - 30]
                   ELSE i1
         IN IF d.failed_connections > 0
            THEN [i2 EXCEPT !.severity = @ + 10,
                            !.description = @ \o <<"(Confirmed:", "count", "failed connection attempts)">>]
            ELSE i2

\* The body of the validation loop of troubleshoot for one issue: store the
\* details and adjust the severity.
apply_validation(issue, result) ==
    IF ~result.validated THEN issue
    ELSE LET d  == result.validation_details
             i1 == [issue EXCEPT !.validation_details = d]
             i2 == IF d.ssid_enabled # "absent"
                      /\ i1.issue_subtype = "ssid_disabled" /\ d.ssid_enabled = "true"
                   THEN [i1 EXCEPT !.severity = @ - 30]
                   ELSE i1
         IN IF d.failed_connections > 0
            THEN [i2 EXCEPT !.severity = @ + 10,
                            !.description = @ \o <<"(Confirmed:", "count", "failed connection attempts)">>]
            ELSE i2

\* the filter, were it to ask for a severity above 60
RECURSIVE KeepAboveSixty(_)
KeepAboveSixty(issues) ==
    IF issues = <<>> THEN <<>>
    ELSE (IF Head(issues).severity > 60 THEN <<Head(issues)>> ELSE <<>>)
         \o KeepAboveSixty(Tail(issues))

\* issues = [issue for issue in validated_issues if issue.severity > 0]
RECURSIVE KeepPositive(_)
KeepPositive(issues) ==
    IF issues = <<>> THEN <<>>
    ELSE (IF Head(issues).severity > 0 THEN <<Head(issues)>> ELSE <<>>)
         \o KeepPositive(Tail(issues))

\* -------------------------------------------------------- recommendations
\* the last issue of maximal severity
PrimaryIssueLast(issues) ==
    issues[CHOOSE i \in 1..Len(issues) :
              /\ \A j \in 1..Len(issues) : issues[j].severity <= issues[i].severity
              /\ \A j \in (i + 1)..Len(issues) : issues[j].severity < issues[i].severity]

\* max(issues, key=lambda x: x.severity): the first issue of maximal severity
PrimaryIssueOf(issues) ==
    issues[CHOOSE i \in 1..Len(issues) :
              /\ \A j \in 1..Len(issues) : issues[j].severity <= issues[i].severity
              /\ \A j \in 1..(i - 1) : issues[j].severity < issues[i].severity]

\* max(issues, key=lambda x: x.severity) if issues else None: <<>> for None,
\* <<issue>> otherwise
PrimaryIssueOrNone(issues) ==
    IF issues = <<>> THEN <<>> ELSE <<PrimaryIssueOf(issues)>>

\* no _get_recommendations and no TroubleshootingResult yet
NoPrimaryIssue == [recommended |-> <<>>, result |-> <<>>]

IsClientSpecificText(description) ==
    Contains(LowerStr(description), <<"specific client">>)

\* the if/elif chain on primary_issue.issue_subtype
RuleRecommendations(primary, ssid) ==
    LET st == primary.issue_subtype
        cs == IsClientSpecificText(primary.description)
    IN IF st = "ssid_disabled"
       THEN << <<"Enable the SSID in the Meraki dashboard">> >>
       ELSE IF st \in {"ssid_not_broadcasting", "ssid_not_visible"}
       THEN IF cs
            THEN << <<"Verify that the affected clients are within range of at least one access point">>,
                    <<"Check if the affected clients have the correct band capabilities (2.4GHz/5GHz/6GHz) for this SSID">>,
                    <<"Verify that client WiFi radios are enabled and not in airplane mode">>,
                    <<"Examine client WiFi scan logs to see what networks are visible to them">> >>
            ELSE << <<"Verify that the SSID is configured to broadcast">>,
                    <<"Check that access points are online and properly configured">>,
                    <<"Verify that the SSID is configured on all expected access points">> >>
       ELSE IF st \in {"authentication_failure", "client_specific_connection_failure"}
       THEN IF cs
            THEN << <<"Verify that the affected clients have the correct credentials and are using the proper authentication method">>,
                    <<"Check if the affected clients have updated WiFi drivers and operating systems">>,
                    <<"Verify that the affected clients support the security protocols used by the SSID (e.g., WPA3, 802.1X)">>,
                    <<"Examine client device logs for WiFi-related errors during connection attempts">> >>
            ELSE << <<"Verify that clients are using the correct password and authentication method">>,
                    <<"Ensure the SSID security settings are compatible with client devices">>,
                    <<"Check for RADIUS server issues if using enterprise authentication">> >>
       ELSE IF st = "dhcp_failure"
       THEN << <<"Verify that DHCP server is functioning properly">>,
               <<"Check that the DHCP scope is not exhausted">>,
               <<"Ensure that there are no IP conflicts on the network">> >>
       ELSE IF st = "open_network_issues"
       THEN << <<"First verify that access points in the client's location are properly tagged for this SSID">>,
               IF ssid.authMode = "open-enhanced"
               THEN <<"For client compatibility issues, consider changing PMF setting to 'optional' while maintaining '", "open-enhanced", "' authentication">>
               ELSE <<"Check if the client device has any security policies that block connections to public networks">>,
               <<"Verify that the client's MAC address is not blocked by any firewall or access control rules">> >>
       ELSE IF st = "immediate_connection_failure"
       THEN IF cs
            THEN << <<"Check the affected client's ability to connect to other WiFi networks">>,
                    <<"Verify the affected client is not blocked by MAC filtering or firewall rules">>,
                    <<"Try resetting the WiFi network adapter on the affected device(s)">>,
                    <<"Examine client device logs for detailed error messages during connection attempts">>,
                    <<"Verify client device supports the WiFi standards used by this SSID (e.g., 802.11ac/ax)">> >>
            ELSE << <<"Verify the SSID broadcast is enabled and access points are online">>,
                    <<"Check for MAC address filtering or other access control settings">>,
                    <<"Ensure client devices support the SSID security type and WiFi standards">> >>
       ELSE <<>>

\* What the knowledge base may do in _get_recommendations: get_topic_content
\* or query may raise, or query returns an answer (possibly empty).
Verbs == { <<>>, <<"Disable">>, <<"Turn off">>, <<"Removing">> }
Objects == { <<>>, <<"Open-Enhanced">>, <<"Open", "Enhanced">> }
Fill(n) == [i \in 1..n |-> "the"]

\* answers that repeat a rule-based recommendation word for word
RepeatedAnswers ==
    { <<"Enable the SSID in the Meraki dashboard">>,
      <<"Verify that the SSID is configured to broadcast">> }

\* An answer names the verb before the object or after it, or repeats a
\* recommendation of the rules.
KbAnswers ==
    { v \o Fill(n) \o o : v \in Verbs, n \in 0..MaxFill, o \in Objects } \cup
    { o \o Fill(n) \o v : v \in Verbs, n \in 0..MaxFill, o \in Objects } \cup
    RepeatedAnswers

KbResponses ==
    { [fails |-> f, answer |-> <<>>] : f \in {"get_topic_content", "query"} } \cup
    { [fails |-> "none", answer |-> a] : a \in KbAnswers }

SafeKbAnswer ==
    <<"Ensure that", "Open-Enhanced", "is enabled on the wireless network. This is a critical feature that should always remain enabled.">>

OpenEnhancedNote == <<"(Note:", "Open-Enhanced", "should always remain enabled)">>

ReaffirmingStatement ==
    <<"Maintain", "Open-Enhanced", "configuration as enabled - this is a critical feature that should always remain active">>

\* The try block around the knowledge base: the recommendations it appends.
\* An exception of get_topic_content or query is caught by its handler.
KbRecommendations(kb) ==
    IF kb.fails # "none" THEN <<>>
    ELSE IF kb.answer = <<>> THEN <<>>
    ELSE IF ContainsAnyLower(kb.answer, KbUnsafeTerms) THEN <<SafeKbAnswer>>
    ELSE <<kb.answer>>

\* every candidate is kept
DeduplicateKeepAll(recs, seen) == seen \o recs

\* unique_recommendations
RECURSIVE Deduplicate(_, _)
Deduplicate(recs, seen) ==
    IF recs = <<>> THEN seen
    ELSE Deduplicate(Tail(recs),
                     IF \E i \in 1..Len(seen) : seen[i] = Head(recs)
                     THEN seen ELSE Append(seen, Head(recs)))

\* the loop of the final filter
RECURSIVE SafeFilter(_)
SafeFilter(recs) ==
    IF recs = <<>> THEN <<>>
    ELSE LET rec == Head(recs) IN
         (IF ContainsAnyLower(rec, FilterUnsafeTerms) THEN <<>>
          ELSE IF ContainsAnyLower(rec, MentionTerms) THEN << rec \o OpenEnhancedNote >>
          ELSE <<rec>>)
         \o SafeFilter(Tail(recs))

GeneralGuidance ==
    << <<"No specific issues were identified. Consider checking the following:">>,
       <<"- Verify that the SSID is properly configured and enabled">>,
       <<"- Check that all access points are online and broadcasting the SSID">>,
       <<"- Ensure client devices have the correct security settings and credentials">> >>

\* _get_recommendations without the if/elif chain on the primary issue: the
\* knowledge-base answer alone.
get_recommendations_kb_only(found, input, answer) ==
    IF found = <<>> THEN GeneralGuidance
    ELSE SafeFilter(Deduplicate(KbRecommendations(answer), <<>>))

\* _get_recommendations: the recommendations it returns.
get_recommendations(issues, nd, kb) ==
    IF issues = <<>> THEN GeneralGuidance
    ELSE LET primary == PrimaryIssueOf(issues)
             recs    == RuleRecommendations(primary, nd.ssid) \o KbRecommendations(kb)
             unique  == Deduplicate(recs, <<>>)
             safe    == SafeFilter(unique)
         IN IF Len(safe) < Len(unique) THEN Append(safe, ReaffirmingStatement) ELSE safe

\* ------------------------------------------------------------- confidence
RECURSIVE MaxSeverity(_)
MaxSeverity(issues) ==
    IF Len(issues) = 1 THEN Head(issues).severity
    ELSE LET m == MaxSeverity(Tail(issues))
         IN IF Head(issues).severity >= m THEN Head(issues).severity ELSE m

Min(a, b) == IF a <= b THEN a ELSE b

\* round to nearest instead of int()
calculate_confidence_rounded(issues, nd) ==
    IF issues = <<>> THEN 50
    ELSE LET data_completeness ==
                 (IF nd.ssid.given THEN 30 ELSE 0)
               + (IF nd.client.given THEN 30 ELSE 0)
               + (IF DescGiven(nd.desc) THEN 20 ELSE 0)
         IN Min((6 * MaxSeverity(issues) + 4 * data_completeness + 5) \div 10, 100)

\* no fixed value for an empty issue list
calculate_confidence_without_default(issues, nd) ==
    LET data_completeness ==
             (IF nd.ssid.given THEN 30 ELSE 0)
           + (IF nd.client.given THEN 30 ELSE 0)
           + (IF DescGiven(nd.desc) THEN 20 ELSE 0)
        max_severity == IF issues = <<>> THEN 0 ELSE MaxSeverity(issues)
    IN Min((6 * max_severity + 4 * data_completeness) \div 10, 100)

\* _calculate_confidence.  int(max_severity * 0.6 + data_completeness * 0.4)
\* is (6 * max_severity + 4 * data_completeness) \div 10 for every severity
\* and completeness the program produces (the float sum is exact there).
calculate_confidence(issues, nd) ==
    IF issues = <<>> THEN 50
    ELSE LET data_completeness ==
                 (IF nd.ssid.given THEN 30 ELSE 0)
               + (IF nd.client.given THEN 30 ELSE 0)
               + (IF DescGiven(nd.desc) THEN 20 ELSE 0)
         IN Min((6 * MaxSeverity(issues) + 4 * data_completeness) \div 10, 100)

\* ------------------------------------------------------------- RFAnalyzer
\* Readings are whole numbers of MHz, dBm and percent.  A quotient a / b of
\* Python floats is kept as the pair of integers and int() of it is
\* truncation toward zero.
Max(a, b) == IF a >= b THEN a ELSE b

Trunc(a, b) == IF a >= 0 THEN a \div b ELSE 0 - ((0 - a) \div b)

RECURSIVE SeqSum(_)
SeqSum(numbers) ==
    IF numbers = <<>> THEN 0 ELSE Head(numbers) + SeqSum(Tail(numbers))

Powers(data_points) == [i \in 1..Len(data_points) |-> data_points[i].power]

\* sorted(values)[index], index counted from 0
SortedAt(values, index) ==
    CHOOSE v \in { values[i] : i \in 1..Len(values) } :
        /\ Cardinality({ i \in 1..Len(values) : values[i] < v }) <= index
        /\ index < Cardinality({ i \in 1..Len(values) : values[i] <= v })

\* 0 where there are no data points, as get_average_power has it
calculate_noise_floor_zero_default(spectrum_data) ==
    IF spectrum_data.data_points = <<>> THEN 0
    ELSE SortedAt(Powers(spectrum_data.data_points),
                  Max(0, (Len(spectrum_data.data_points) \div 10) - 1))

\* _calculate_noise_floor; int(len(powers) * 0.1) is len(powers) \div 10
calculate_noise_floor(spectrum_data) ==
    IF spectrum_data.data_points = <<>> THEN 0 - 95
    ELSE LET powers == Powers(spectrum_data.data_points)
             index  == Max(0, (Len(powers) \div 10) - 1)
         IN SortedAt(powers, index)

\* SpectrumData.get_average_utilization, as <<numerator, denominator>>
get_average_utilization(spectrum_data) ==
    IF spectrum_data.data_points = <<>> THEN <<0, 1>>
    ELSE << SeqSum([i \in 1..Len(spectrum_data.data_points) |->
                       spectrum_data.data_points[i].utilization]),
            Len(spectrum_data.data_points) >>

\* the data points of a frequency window whose power exceeds the noise
\* floor by more than `margin`
AffectedDataPoints(spectrum_data, noise_floor, low, high, margin) ==
    SelectSeq(spectrum_data.data_points,
              LAMBDA dp : /\ low <= dp.frequency
                          /\ dp.frequency <= high
                          /\ dp.power > noise_floor + margin)

\* min(100, int((avg_power - noise_floor) * factor)) with avg_power =
\* sum / len.  When the length does not divide the sum the float quotient
\* is inexact, and a product that is a whole number in exact arithmetic may
\* come out just below it: float_error says that it does.
ImpactLevel(affected, noise_floor, factor, float_error) ==
    LET total   == SeqSum(Powers(affected))
        n       == Len(affected)
        scaled  == factor * (total - n * noise_floor)
        inexact == total % n # 0 /\ scaled % n = 0
    IN Min(100, Trunc(scaled, n) - (IF inexact /\ float_error THEN 1 ELSE 0))

\* one rule: the InterferenceSource it appends, if any
InterferenceRule(spectrum_data, noise_floor, window, margin, threshold, factor, type, certainty, float_error) ==
    LET affected == AffectedDataPoints(spectrum_data, noise_floor, window[1], window[2],
                                       margin)
    IN IF affected # <<>> /\ Len(affected) > threshold
       THEN << [type            |-> type,
                frequency_range |-> window,
                avg_power       |-> <<SeqSum(Powers(affected)), Len(affected)>>,
                impact_level    |-> ImpactLevel(affected, noise_floor, factor, float_error),
                confidence      |-> certainty] >>
       ELSE <<>>

\* the microwave rule with `>= 5` in place of `> 5`
check_for_2_4ghz_interference_from_five(spectrum_data, noise_floor, float_error) ==
    InterferenceRule(spectrum_data, noise_floor, <<2445, 2465>>, 10, 4, 5,
                     "microwave", 75, float_error)
    \o InterferenceRule(spectrum_data, noise_floor, <<2402, 2480>>, 5, 10, 3,
                        "bluetooth", 65, float_error)

check_for_2_4ghz_interference(spectrum_data, noise_floor, float_error) ==
    InterferenceRule(spectrum_data, noise_floor, <<2445, 2465>>, 10, 5, 5,
                     "microwave", 75, float_error)
    \o InterferenceRule(spectrum_data, noise_floor, <<2402, 2480>>, 5, 10, 3,
                        "bluetooth", 65, float_error)

check_for_5ghz_interference(spectrum_data, noise_floor, float_error) ==
    InterferenceRule(spectrum_data, noise_floor, <<5250, 5350>>, 15, 3, 4,
                     "radar", 80, float_error)

check_for_6ghz_interference(spectrum_data, noise_floor) == <<>>

identify_interference(spectrum_data, noise_floor, float_error) ==
    CASE spectrum_data.band = "2.4GHz" ->
            check_for_2_4ghz_interference(spectrum_data, noise_floor, float_error)
      [] spectrum_data.band = "5GHz" ->
            check_for_5ghz_interference(spectrum_data, noise_floor, float_error)
      [] spectrum_data.band = "6GHz" ->
            check_for_6ghz_interference(spectrum_data, noise_floor)
      [] OTHER -> <<>>

\* the score before `max(0, min(100, quality_score))`
QualityScore(spectrum_data, noise_floor, interference_sources) ==
    LET avg_utilization == get_average_utilization(spectrum_data)
        noise_deduction ==
            IF noise_floor > 0 - 85 THEN Min(30, (noise_floor + 85) * 3) ELSE 0
        utilization_deduction ==
            IF avg_utilization[1] > 20 * avg_utilization[2]
            THEN Min(40, Trunc(avg_utilization[1], 2 * avg_utilization[2]))
            ELSE 0
        interference_deduction ==
            SeqSum([i \in 1..Len(interference_sources) |->
                       Min(30, Trunc(interference_sources[i].impact_level, 3))])
    IN 100 - noise_deduction - utilization_deduction - interference_deduction

\* the score returned without the clamp
evaluate_channel_quality_unclamped(spectrum_data, noise_floor, interference_sources) ==
    QualityScore(spectrum_data, noise_floor, interference_sources)

evaluate_channel_quality(spectrum_data, noise_floor, interference_sources) ==
    Max(0, Min(100, QualityScore(spectrum_data, noise_floor, interference_sources)))

\* _generate_recommendations: one tag per recommendation text, in order
generate_recommendations(spectrum_data, noise_floor, interference_sources, channel_quality) ==
    (IF channel_quality < 40 THEN <<"change_channel">> ELSE <<>>)
    \o (IF noise_floor > 0 - 80 THEN <<"high_noise_floor">> ELSE <<>>)
    \o [i \in 1..Len(interference_sources) |-> interference_sources[i].type]
    \o (IF spectrum_data.channel_width = 80 /\ channel_quality < 60
        THEN <<"reduce_width_80">>
        ELSE IF spectrum_data.channel_width = 160 /\ channel_quality < 70
        THEN <<"reduce_width_160">> ELSE <<>>)
    \o (IF spectrum_data.band = "2.4GHz" /\ channel_quality < 50
        THEN <<"band_steering">> ELSE <<>>)

\* the SpectrumAnalysis built by the try block of analyze_spectrum (its
\* summary, a text made of the other fields, is left out)
SpectrumAnalysis(spectrum_data, float_error) ==
    LET noise_floor          == calculate_noise_floor(spectrum_data)
        interference_sources == identify_interference(spectrum_data, noise_floor,
                                                      float_error)
        channel_quality      == evaluate_channel_quality(spectrum_data, noise_floor,
                                                         interference_sources)
    IN [spectrum_data        |-> spectrum_data,
        noise_floor          |-> noise_floor,
        interference_sources |-> interference_sources,
        channel_quality      |-> channel_quality,
        recommendations      |-> generate_recommendations(
                                    spectrum_data, noise_floor, interference_sources,
                                    channel_quality)]

\* ---------------------------------------------------- utils/text_analysis
\* the list attributes of a QueryContext, in the order _merge_contexts
\* walks them
Categories ==
    << "location_identifiers", "building_identifiers", "network_identifiers",
       "device_identifiers", "device_types", "ssid_names", "error_messages",
       "urgency_indicators", "time_references", "client_identifiers",
       "ap_identifiers" >>

CategorySet == { Categories[i] : i \in 1..Len(Categories) }

\* QueryContext()
EmptyContext == [attr \in CategorySet |-> <<>>]

\* Python `item in list`
In(item, list) == \E i \in 1..Len(list) : list[i] = item

\* every item of the secondary list is appended
MergeListKeepAll(primary_list, secondary_list) == primary_list \o secondary_list

\* the inner loop of _merge_contexts on one attribute
RECURSIVE MergeList(_, _)
MergeList(primary_list, secondary_list) ==
    IF secondary_list = <<>> THEN primary_list
    ELSE MergeList(IF In(Head(secondary_list), primary_list)
                   THEN primary_list
                   ELSE Append(primary_list, Head(secondary_list)),
                   Tail(secondary_list))

\* _merge_contexts: the two contexts after the call (primary is updated in
\* place, secondary is only read)
merge_contexts(primary, secondary) ==
    [primary   |-> [attr \in CategorySet |-> MergeList(primary[attr], secondary[attr])],
     secondary |-> secondary]

\* one loop of detect_ambiguities: the terms of `list` found in `other`,
\* each appended once
RECURSIVE AmbiguousTerms(_, _, _)
AmbiguousTerms(list, other, found) ==
    IF list = <<>> THEN found
    ELSE AmbiguousTerms(Tail(list), other,
                        IF In(Head(list), other) /\ ~In(Head(list), found)
                        THEN Append(found, Head(list)) ELSE found)

\* every SSID name is listed, whether a network identifier or not
detect_ambiguities_any_ssid(context) ==
    [ssid_network |-> AmbiguousTerms(context.ssid_names, context.ssid_names, <<>>),
     location     |-> AmbiguousTerms(context.location_identifiers,
                                     context.building_identifiers, <<>>),
     device       |-> <<>>]

detect_ambiguities(context) ==
    [ssid_network |-> AmbiguousTerms(context.ssid_names,
                                     context.network_identifiers, <<>>),
     location     |-> AmbiguousTerms(context.location_identifiers,
                                     context.building_identifiers, <<>>),
     device       |-> <<>>]

\* -- extract_context_from_query.  A query is the sequence of its words, which
\* a single space separates; the words come from Words below.

\* str.lower()
WordLower(token) == IF token = "Home" THEN "home" ELSE token

\* `if item not in list: list.append(item)`
AppendNew(list, item) == IF In(item, list) THEN list ELSE Append(list, item)

\* the guarded appends of one loop, over the matches in order
RECURSIVE AppendAllNew(_, _)
AppendAllNew(list, items) ==
    IF items = <<>> THEN list
    ELSE AppendAllNew(AppendNew(list, Head(items)), Tail(items))

\* room_patterns: a letter followed by one to three digits
IsRoom(word) == word = "w23"

\* device_type_patterns
IsDeviceType(word) == word \in {"macbook", "windows", "laptop", "desktop", "computer", "phone", "iphone", "android", "ios", "pc", "mac", "chromebook", "tablet", "ipad"}

\* urgency_terms that are one word
IsUrgencyTerm(word) == word \in {"asap", "urgent", "emergency", "immediately", "critical"}

\* re.finditer of 'connect(ing)? to <name>' from position i: the names, in
\* order; a match consumes its three words
RECURSIVE ConnectMatches(_, _)
ConnectMatches(words, i) ==
    IF i + 2 > Len(words) THEN <<>>
    ELSE IF words[i] \in {"connect", "connecting"} /\ words[i + 1] = "to"
         THEN <<words[i + 2]>> \o ConnectMatches(words, i + 3)
         ELSE ConnectMatches(words, i + 1)

\* the words of a query, the runs of whitespace left out (nltk.word_tokenize,
\* and `\b`, `\s+` in the patterns)
NotBlank(piece) == piece # " "
Tokens(query) == SelectSeq(query, NotBlank)

\* _extract_context_with_regex, on the lowercased query
extract_context_with_regex(query) ==
    LET words == Tokens(query)
        query_lower == [i \in 1..Len(words) |-> WordLower(words[i])]
        rooms == AppendAllNew(<<>>, SelectSeq(query_lower, IsRoom))
    IN [EmptyContext EXCEPT
          !.location_identifiers = rooms,
          !.device_types = AppendAllNew(<<>>, SelectSeq(query_lower, IsDeviceType)),
          !.ssid_names = AppendAllNew(<<>>, ConnectMatches(query_lower, 1)),
          !.urgency_indicators =
              IF \E i \in 1..Len(query_lower) : query_lower[i] = "urgent"
              THEN <<"urgent">> ELSE <<>>,
          !.ap_identifiers = AppendAllNew(<<>>, rooms)]

\* What nltk.pos_tag and nltk.ne_chunk answer, as far as the code reads it:
\* the tag of 'Home', the label of the entity 'Home' (one chunk per token)
\* and the tag of 'connect'.
Taggers ==
    { [home_tag |-> h[1], home_label |-> h[2], connect_tag |-> c] :
        h \in { <<"NN", "none">>, <<"NNP", "none">>, <<"NNP", "ORGANIZATION">>,
                <<"NNP", "PERSON">> },
        c \in { "VB", "NN" } }

\* the part-of-speech tag of a token
PosTag(token, tagger) ==
    CASE token = "Home"    -> tagger.home_tag
      [] token = "connect" -> tagger.connect_tag
      [] token = "laptop"  -> "NN"
      [] token = "urgent"  -> "JJ"
      [] token = "w23"     -> "CD"
      [] token = "to"      -> "TO"
      [] OTHER             -> "IN"

\* pos.startswith(prefix)
StartsWith(pos, prefix) ==
    CASE prefix = "NNP" -> pos = "NNP"
      [] prefix = "NN"  -> pos \in {"NN", "NNP"}
      [] prefix = "VB"  -> pos = "VB"
      [] prefix = "JJ"  -> pos = "JJ"
      [] OTHER          -> FALSE

\* the loop over named_entities
RECURSIVE NamedEntities(_, _, _)
NamedEntities(tokens, tagger, context) ==
    IF tokens = <<>> THEN context
    ELSE LET labelled == Head(tokens) = "Home" /\ tagger.home_tag = "NNP"
             label    == IF labelled THEN tagger.home_label ELSE "none"
             c1 == IF label \in {"ORGANIZATION", "GPE", "FACILITY"}
                   THEN [context EXCEPT !.network_identifiers = Append(@, Head(tokens))]
                   ELSE context
             c2 == IF label = "PERSON"
                   THEN [c1 EXCEPT !.ssid_names = Append(@, Head(tokens))]
                   ELSE c1
         IN NamedEntities(Tail(tokens), tagger, c2)

\* the loop over pos_tags for prepositions and connecting verbs, from token i
RECURSIVE PosPatterns(_, _, _, _)
PosPatterns(tokens, tagger, i, context) ==
    IF i > Len(tokens) THEN context
    ELSE LET c1 == IF /\ WordLower(tokens[i]) \in {"at", "on", "in"}
                      /\ i < Len(tokens)
                      /\ StartsWith(PosTag(tokens[i + 1], tagger), "NNP")
                   THEN [context EXCEPT !.network_identifiers = Append(@, tokens[i + 1])]
                   ELSE context
             c2 == IF /\ StartsWith(PosTag(tokens[i], tagger), "VB")
                      /\ WordLower(tokens[i]) \in {"connect", "connecting", "connected", "join", "joining", "joined"}
                      /\ i < Len(tokens) - 1
                      /\ WordLower(tokens[i + 1]) = "to"
                      /\ StartsWith(PosTag(tokens[i + 2], tagger), "NN")
                   THEN [c1 EXCEPT !.ssid_names = Append(@, tokens[i + 2])]
                   ELSE c1
         IN PosPatterns(tokens, tagger, i + 1, c2)

\* the loop for 'X at X', from token i (every word of Words is longer than
\* one character)
RECURSIVE SameWordAroundAt(_, _, _)
SameWordAroundAt(tokens, i, context) ==
    IF i > Len(tokens) THEN context
    ELSE LET c1 == IF /\ WordLower(tokens[i]) = "at"
                      /\ i > 1
                      /\ i < Len(tokens)
                      /\ WordLower(tokens[i - 1]) = WordLower(tokens[i + 1])
                   THEN [context EXCEPT
                           !.ssid_names = AppendNew(@, tokens[i - 1]),
                           !.network_identifiers = AppendNew(@, tokens[i + 1])]
                   ELSE context
         IN SameWordAroundAt(tokens, i + 1, c1)

\* device_keywords
IsDeviceKeyword(word) == word \in {"laptop", "computer", "phone", "mobile", "tablet", "pc", "mac", "device"}

\* the loop over pos_tags for device keywords, from token i
RECURSIVE DeviceTypes(_, _, _, _)
DeviceTypes(tokens, tagger, i, list) ==
    IF i > Len(tokens) THEN list
    ELSE LET l1 == IF IsDeviceKeyword(WordLower(tokens[i]))
                   THEN Append(list, WordLower(tokens[i])) ELSE list
             l2 == IF /\ IsDeviceKeyword(WordLower(tokens[i]))
                      /\ i > 1
                      /\ \/ StartsWith(PosTag(tokens[i - 1], tagger), "JJ")
                         \/ StartsWith(PosTag(tokens[i - 1], tagger), "NN")
                   THEN Append(l1, WordLower(tokens[i - 1]) \o " " \o WordLower(tokens[i]))
                   ELSE l1
         IN DeviceTypes(tokens, tagger, i + 1, l2)

\* _extract_context_with_nlp; word_tokenize gives the words of the query
extract_context_with_nlp(query, tagger) ==
    LET tokens   == Tokens(query)
        entities == NamedEntities(tokens, tagger, EmptyContext)
        patterns == PosPatterns(tokens, tagger, 1, entities)
        around   == SameWordAroundAt(tokens, 1, patterns)
        lowered  == [i \in 1..Len(tokens) |-> WordLower(tokens[i])]
    IN [around EXCEPT
          !.device_types = DeviceTypes(tokens, tagger, 1, <<>>),
          !.urgency_indicators = SelectSeq(lowered, IsUrgencyTerm)]

\* the ways extract_context_from_query can go for a query that is not blank
ExtractionPaths == {"nlp", "nlp_raises", "nltk_unavailable"}

\* `not query or not query.strip()`
IsBlank(query) == Tokens(query) = <<>>

\* the context of a failed NLP extraction is kept and supplemented
extract_context_from_query_keeping_nlp(query, path, tagger) ==
    IF IsBlank(query) THEN EmptyContext
    ELSE IF path \in {"nlp", "nlp_raises"}
         THEN merge_contexts(extract_context_with_nlp(query, tagger),
                             extract_context_with_regex(query)).primary
         ELSE extract_context_with_regex(query)

\* extract_context_from_query: the context it returns
extract_context_from_query(query, path, tagger) ==
    IF IsBlank(query) THEN EmptyContext
    ELSE IF path = "nlp"
         THEN merge_contexts(extract_context_with_nlp(query, tagger),
                             extract_context_with_regex(query)).primary
         ELSE extract_context_with_regex(query)

\* extract_context_from_query: the extractors it calls, in order, and how
\* the call ends
extraction_steps(query, path) ==
    IF IsBlank(query) THEN <<"return">>
    ELSE CASE path = "nlp"        -> <<"nlp", "regex", "merge", "return">>
           [] path = "nlp_raises" -> <<"nlp", "except", "regex", "return">>
           [] OTHER               -> <<"regex", "return">>

\* ------------------------------------------------------------------ state
VARIABLES
    kb_initialized,   \* WifiTroubleshooter._kb_initialized
    init_calls,       \* number of knowledge_base.initialize() invocations so far
    init_ok,          \* number of those that completed successfully
    calls,            \* number of calls started on the troubleshooter
    pc,               \* per coroutine: where it stands
    op,               \* per coroutine: the method it runs
    nd,               \* per coroutine: network_data and the meraki_client flag
    issues,           \* per coroutine: the local list `issues`
    vidx,             \* per coroutine: position of the validation loop
    vlog,             \* per coroutine: what validation saw, one entry per issue
    kb,               \* per coroutine: what the knowledge base answered
    recommendations,  \* per coroutine: the recommendations returned
    confidence,       \* per coroutine: the confidence returned
    primary_issue,    \* per coroutine: the primary issue of _get_recommendations
                      \* and that of the TroubleshootingResult
    text_issues,      \* per coroutine: the issues of _analyze_issue_description,
                      \* as constructed and as returned
    outcome,          \* per coroutine: how the call ended
    raised,           \* per coroutine: the exception behind a failed call
    stages,           \* per coroutine: the stages the call has entered, in order
    spectrum_data_list,  \* batch_analyze: its argument
    results,             \* batch_analyze: the dict `results`
    errors,              \* batch_analyze: the list `errors`, one serial per entry
    batch_outcome,       \* batch_analyze: how the call ended
    rf_kb_initialized,   \* RFTroubleshooter._kb_initialized
    rf_pc,               \* batch_troubleshoot: where the call stands
    rf_list,             \* batch_troubleshoot: its argument
    rf_pos,              \* batch_troubleshoot: items the loop has taken so far
    rf_results,          \* batch_troubleshoot: the dict `results`
    rf_log,              \* batch_troubleshoot: how each item taken ended, in order
    rf_outcome,          \* batch_troubleshoot: how the call ended
    rf_calls,            \* number of batch_troubleshoot calls started
    cf_args,             \* _calculate_confidence: <<its arguments>> once called
    cf_confidence,       \* _calculate_confidence: <<its return value>>
    sp_args,             \* analyze_spectrum: <<its argument>> once called
    sp_analysis,         \* analyze_spectrum: <<what it returned or raised>>
    da_args,             \* detect_ambiguities: <<its argument>> once called
    da_ambiguities,      \* detect_ambiguities: <<its return value>>
    mg_args,             \* _merge_contexts: <<primary, secondary>> as passed
    mg_after,            \* _merge_contexts: <<primary, secondary>> on return
    ex_args,             \* extract_context_from_query: <<query, path, tagger>>
    ex_context,          \* extract_context_from_query: <<its return value>>
    ex_steps,            \* extract_context_from_query: what it called, in order
    ap_args,             \* _check_ap_configurations: <<its inputs>> once called
    ap_issues,           \* _check_ap_configurations: <<the list it returned>>
    sd_added,            \* add_data_point: the points passed, in call order
    sd_data              \* the SpectrumData object the points are added to

\* the state of the troubleshooter and of its coroutines
tvars == <<kb_initialized, init_calls, init_ok, calls, pc, op, nd, issues, vidx,
           vlog, kb, recommendations, confidence, primary_issue, text_issues,
           outcome, raised, stages>>

\* the state of a batch_analyze call
bvars == <<spectrum_data_list, results, errors, batch_outcome>>

\* the state of an RFTroubleshooter and of its batch_troubleshoot call
rvars == <<rf_kb_initialized, rf_pc, rf_list, rf_pos, rf_results, rf_log, rf_outcome,
           rf_calls>>

\* a direct call of _calculate_confidence
cfvars == <<cf_args, cf_confidence>>

\* a direct call of RFAnalyzer.analyze_spectrum
spvars == <<sp_args, sp_analysis>>

\* direct calls of detect_ambiguities, _merge_contexts and
\* extract_context_from_query
qvars == <<da_args, da_ambiguities, mg_args, mg_after, ex_args, ex_context, ex_steps>>

\* the state of the direct calls of single functions
\* a direct call of _check_ap_configurations
avars == <<ap_args, ap_issues>>

\* calls of SpectrumData.add_data_point on one object
dvars == <<sd_added, sd_data>>

fvars == <<cfvars, spvars, qvars, avars, dvars>>

vars == <<tvars, bvars, rvars, fvars>>

Tasks == 1..NumTasks

NoInput == [ssid |-> NoSsid, client |-> NoClient, desc |-> NoDescription,
            meraki_client |-> FALSE]

NoKb == [fails |-> "unused", answer |-> <<>>]

\* Calls without a device accessor range over all the inputs above; calls
\* with one range over the SSIDs whose checks construct every issue (a plain
\* PSK SSID, enabled or not, broadcasting or not, with or without a number),
\* no client data or a failed authentication, no description or one that
\* the fallback would read.
LiveSsidInputs ==
    { s \in SsidInputs : s.authMode \in {"none", "psk"} /\ ~s.pmf_required /\ ~s.restricted }

LiveClientInputs ==
    { c \in ClientInputs : c.status = "none" \/ c.failureReason = "auth_failure" }

LiveDescriptionInputs ==
    { d \in DescriptionInputs : d.is_none \/ "cant_connect_macbook" \in d.phrases }

\* A disabled SSID, whatever its other fields hold.
DisabledSsidInputs ==
    [given : {TRUE}, enabled : {FALSE}, broadcasting : BOOLEAN, authMode : AuthModes,
     pmf_required : BOOLEAN, restricted : BOOLEAN, has_number : BOOLEAN,
     has_name : BOOLEAN]

TroubleshootInputs ==
    [ssid : SsidInputs, client : ClientInputs, desc : DescriptionInputs,
     meraki_client : {FALSE}]
    \cup
    [ssid : DisabledSsidInputs, client : {NoClient}, desc : {NoDescription},
     meraki_client : {FALSE}]
    \cup
    [ssid : LiveSsidInputs, client : LiveClientInputs, desc : LiveDescriptionInputs,
     meraki_client : {TRUE}]

\* The knowledge-base behaviours tried in a call with a device accessor:
\* either call raising, no answer, and an answer that asks to disable
\* Open-Enhanced.  A call without an accessor tries all of KbResponses.
LiveKbResponses ==
    { k \in KbResponses :
        \/ k.fails # "none"
        \/ k.answer \in { <<>>, <<"Disable", "Open-Enhanced">> } }

Init ==
    /\ kb_initialized = FALSE
    /\ init_calls = 0
    /\ init_ok = 0
    /\ calls = 0
    /\ pc = [t \in Tasks |-> "idle"]
    /\ op = [t \in Tasks |-> "none"]
    /\ nd = [t \in Tasks |-> NoInput]
    /\ issues = [t \in Tasks |-> <<>>]
    /\ vidx = [t \in Tasks |-> 0]
    /\ vlog = [t \in Tasks |-> <<>>]
    /\ kb = [t \in Tasks |-> NoKb]
    /\ recommendations = [t \in Tasks |-> <<>>]
    /\ confidence = [t \in Tasks |-> 0 - 1]
    /\ primary_issue = [t \in Tasks |-> NoPrimaryIssue]
    /\ text_issues = [t \in Tasks |-> NoTextIssues]
    /\ outcome = [t \in Tasks |-> "none"]
    /\ raised = [t \in Tasks |-> "none"]
    /\ stages = [t \in Tasks |-> <<>>]
    /\ spectrum_data_list = <<>>
    /\ results = <<>>
    /\ errors = <<>>
    /\ batch_outcome = "none"
    /\ rf_kb_initialized = FALSE
    /\ rf_pc = "idle"
    /\ rf_list = [iterable |-> TRUE, items |-> <<>>]
    /\ rf_pos = 0
    /\ rf_results = <<>>
    /\ rf_log = <<>>
    /\ rf_outcome = "none"
    /\ rf_calls = 0
    /\ cf_args = <<>>
    /\ cf_confidence = <<>>
    /\ sp_args = <<>>
    /\ sp_analysis = <<>>
    /\ da_args = <<>>
    /\ da_ambiguities = <<>>
    /\ mg_args = <<>>
    /\ mg_after = <<>>
    /\ ex_args = <<>>
    /\ ex_context = <<>>
    /\ ex_steps = <<>>
    /\ ap_args = <<>>
    /\ ap_issues = <<>>
    /\ sd_added = <<>>
    /\ sd_data = [data_points |-> <<>>, start_time |-> 0, end_time |-> 0]

\* ----------------------------------------------------------- stage order
StageOf(p) ==
    CASE p = "init_kb"                                  -> "INIT_KB"
      [] p \in {"detect", "ap_checks", "client_checks"} -> "DETECT_ISSUES"
      [] p = "fallback"                                 -> "FALLBACK_TEXT_ANALYSIS"
      [] p = "validate"                                 -> "VALIDATE_ISSUES"
      [] p = "recommend"                                -> "FETCH_RECOMMENDATIONS"
      [] OTHER                                          -> "none"

\* Step 7 and what follows it: validation only with a device accessor.
AfterFallback(input) == IF input.meraki_client THEN "validate" ELSE "recommend"

\* Steps 6 and 7 in the other order: validation (when there is an accessor)
\* straight after detection.
AfterDetectionValidateFirst(found, input) ==
    IF input.meraki_client THEN "validate"
    ELSE IF found = <<>> /\ DescGiven(input.desc) THEN "fallback"
    ELSE "recommend"

\* Step 6 comes after the detection steps 2-5 and before Step 7.
AfterDetection(found, input) ==
    IF found = <<>> /\ DescGiven(input.desc) THEN "fallback" ELSE AfterFallback(input)

\* control moves to `p`: the stage of `p` is entered unless the call is in it
Goto(t, p) ==
    /\ pc' = [pc EXCEPT ![t] = p]
    /\ stages' = [stages EXCEPT ![t] =
                    IF StageOf(p) = "none" \/ (@ # <<>> /\ @[Len(@)] = StageOf(p))
                    THEN @ ELSE Append(@, StageOf(p))]

\* the call ends with WifiTroubleshootingError
Fail(t, exception) ==
    /\ outcome' = [outcome EXCEPT ![t] = "WifiTroubleshootingError"]
    /\ raised' = [raised EXCEPT ![t] = exception]
    /\ Goto(t, "done")

\* ---------------------------------------------------------------- actions
\* troubleshoot is called and initialises the knowledge base whatever
\* _kb_initialized holds: the call without its guards
CallTroubleshootUnguarded(t, inputs, limit) ==
    /\ pc[t] = "idle"
    /\ UNCHANGED <<bvars, rvars, fvars>>
    /\ calls < limit
    /\ calls' = calls + 1
    /\ \E input \in inputs : nd' = [nd EXCEPT ![t] = input]
    /\ op' = [op EXCEPT ![t] = "troubleshoot"]
    /\ init_calls' = init_calls + 1
    /\ Goto(t, "init_kb")
    /\ UNCHANGED <<kb_initialized, init_ok, issues, vidx, vlog, kb,
                   recommendations, confidence, primary_issue, text_issues, outcome, raised>>

\* troubleshoot is called: the guard of line 207 and that of
\* initialize_knowledge_base run without a suspension point between them.
CallTroubleshoot(t, inputs, limit) ==
    /\ pc[t] = "idle"
    /\ UNCHANGED <<bvars, rvars, fvars>>
    /\ calls < limit
    /\ calls' = calls + 1
    /\ \E input \in inputs : nd' = [nd EXCEPT ![t] = input]
    /\ op' = [op EXCEPT ![t] = "troubleshoot"]
    /\ IF kb_initialized
       THEN /\ Goto(t, "detect")
            /\ UNCHANGED init_calls
       ELSE /\ init_calls' = init_calls + 1
            /\ Goto(t, "init_kb")
    /\ UNCHANGED <<kb_initialized, init_ok, issues, vidx, vlog, kb,
                   recommendations, confidence, primary_issue, text_issues, outcome, raised>>

\* initialize_knowledge_base is called directly
CallInitializeKnowledgeBase(t, limit) ==
    /\ pc[t] = "idle"
    /\ UNCHANGED <<bvars, rvars, fvars>>
    /\ calls < limit
    /\ calls' = calls + 1
    /\ op' = [op EXCEPT ![t] = "initialize_knowledge_base"]
    /\ IF kb_initialized
       THEN /\ Goto(t, "done")
            /\ outcome' = [outcome EXCEPT ![t] = "returned"]
            /\ UNCHANGED init_calls
       ELSE /\ init_calls' = init_calls + 1
            /\ Goto(t, "init_kb")
            /\ UNCHANGED outcome
    /\ UNCHANGED <<kb_initialized, init_ok, nd, issues, vidx, vlog, kb,
                   recommendations, confidence, primary_issue, text_issues, raised>>

\* await self.knowledge_base.initialize() completes
InitializeSucceeds(t) ==
    /\ pc[t] = "init_kb"
    /\ UNCHANGED <<bvars, rvars, fvars>>
    /\ kb_initialized' = TRUE
    /\ init_ok' = init_ok + 1
    /\ IF op[t] = "troubleshoot"
       THEN /\ Goto(t, "detect")
            /\ UNCHANGED outcome
       ELSE /\ Goto(t, "done")
            /\ outcome' = [outcome EXCEPT ![t] = "returned"]
    /\ UNCHANGED <<init_calls, calls, op, nd, issues, vidx, vlog, kb,
                   recommendations, confidence, primary_issue, text_issues, raised>>

\* await self.knowledge_base.initialize() raises and troubleshoot goes on
\* without a knowledge base: what a handler around line 208 would do
InitializeFailsRecovered(t) ==
    /\ pc[t] = "init_kb"
    /\ UNCHANGED <<bvars, rvars, fvars>>
    /\ Goto(t, IF op[t] = "troubleshoot" THEN "detect" ELSE "done")
    /\ UNCHANGED <<kb_initialized, init_calls, init_ok, calls, op, nd, issues,
                   vidx, vlog, kb, recommendations, confidence, primary_issue, text_issues, outcome, raised>>

\* await self.knowledge_base.initialize() raises, were the flag set before
\* the await instead of after it
InitializeFailsFlagSet(t) ==
    /\ pc[t] = "init_kb"
    /\ UNCHANGED <<bvars, rvars, fvars>>
    /\ kb_initialized' = TRUE
    /\ Fail(t, "KnowledgeBaseError in initialize")
    /\ UNCHANGED <<init_calls, init_ok, calls, op, nd, issues,
                   vidx, vlog, kb, recommendations, confidence, primary_issue, text_issues>>

\* await self.knowledge_base.initialize() raises KnowledgeBaseError: the
\* handler raises WifiTroubleshootingError, which leaves troubleshoot too
\* (the call of line 208 is outside its try block)
InitializeFails(t) ==
    /\ pc[t] = "init_kb"
    /\ UNCHANGED <<bvars, rvars, fvars>>
    /\ Fail(t, "KnowledgeBaseError in initialize")
    /\ UNCHANGED <<kb_initialized, init_calls, init_ok, calls, op, nd, issues,
                   vidx, vlog, kb, recommendations, confidence, primary_issue, text_issues>>

\* Steps 2 and 3: _check_ssid_issues and _check_client_issues
Detect(t) ==
    /\ pc[t] = "detect"
    /\ UNCHANGED <<bvars, rvars, fvars>>
    /\ LET ssid_calls   == check_ssid_issues(nd[t])
           client_calls == check_client_issues(nd[t])
           found        == Appended(ssid_calls) \o Appended(client_calls)
       IN IF Raises(ssid_calls) \/ Raises(client_calls)
          THEN /\ Fail(t, "TypeError in WifiIssue()")
               /\ UNCHANGED issues
          ELSE /\ issues' = [issues EXCEPT ![t] = found]
               /\ Goto(t, IF nd[t].meraki_client THEN "ap_checks"
                          ELSE AfterDetection(found, nd[t]))
               /\ UNCHANGED <<outcome, raised>>
    /\ UNCHANGED <<kb_initialized, init_calls, init_ok, calls, op, nd, vidx,
                   vlog, kb, recommendations, confidence, primary_issue, text_issues>>

\* Step 4: _check_ap_configurations
ApChecks(t) ==
    /\ pc[t] = "ap_checks"
    /\ UNCHANGED <<bvars, rvars, fvars>>
    /\ \E devices \in DevicesResponses, status \in StatusResponses :
          issues' = [issues EXCEPT ![t] =
                        @ \o check_ap_configurations(nd[t].ssid, devices, status)]
    /\ Goto(t, "client_checks")
    /\ UNCHANGED <<kb_initialized, init_calls, init_ok, calls, op, nd, vidx,
                   vlog, kb, recommendations, confidence, primary_issue, text_issues, outcome, raised>>

\* Step 5: _check_connected_clients
ClientChecks(t) ==
    /\ pc[t] = "client_checks"
    /\ UNCHANGED <<bvars, rvars, fvars>>
    /\ \E clients \in ClientsResponses, failed \in FailedResponses :
          LET found == issues[t] \o check_connected_clients(nd[t].ssid, clients, failed)
          IN /\ issues' = [issues EXCEPT ![t] = found]
             /\ Goto(t, AfterDetection(found, nd[t]))
    /\ UNCHANGED <<kb_initialized, init_calls, init_ok, calls, op, nd, vidx,
                   vlog, kb, recommendations, confidence, primary_issue, text_issues, outcome, raised>>

\* Step 6: the free-text fallback
Fallback(t) ==
    /\ pc[t] = "fallback"
    /\ UNCHANGED <<bvars, rvars, fvars>>
    /\ LET r == fallback_text_analysis(issues[t], nd[t].desc)
       IN IF r.exc
          THEN /\ Fail(t, "ValueError or TypeError in Step 6")
               /\ UNCHANGED issues
          ELSE /\ issues' = [issues EXCEPT ![t] = r.issues]
               /\ Goto(t, AfterFallback(nd[t]))
               /\ UNCHANGED <<outcome, raised>>
    /\ text_issues' = [text_issues EXCEPT ![t] =
                          [constructed |-> constructed_from_description(nd[t].desc),
                           returned    |-> analyze_issue_description(nd[t].desc)]]
    /\ UNCHANGED <<kb_initialized, init_calls, init_ok, calls, op, nd, vidx,
                   vlog, kb, recommendations, confidence, primary_issue>>

\* Step 7, one turn of the loop, were the exception of an accessor call to
\* leave _validate_with_api: it ends troubleshoot in its outer handler
ValidateIssueUnhandled(t) ==
    /\ pc[t] = "validate"
    /\ UNCHANGED <<bvars, rvars, fvars>>
    /\ vidx[t] < Len(issues[t])
    /\ LET i     == vidx[t] + 1
           issue == issues[t][i]
       IN \E resp \in ValidationResponses(issue) :
            LET result == validate_with_api(issue, nd[t].ssid, resp)
            IN /\ issues' = [issues EXCEPT ![t][i] = apply_validation(issue, result)]
               /\ vlog' = [vlog EXCEPT ![t] =
                             Append(@, [threw |-> result.threw,
                                        validated |-> result.validated,
                                        before |-> issue])]
               /\ vidx' = [vidx EXCEPT ![t] = i]
               /\ IF result.threw
                  THEN Fail(t, "ApiError in _validate_with_api")
                  ELSE UNCHANGED <<pc, outcome, raised, stages>>
    /\ UNCHANGED <<kb_initialized, init_calls, init_ok, calls, op, nd, kb,
                   recommendations, confidence, primary_issue, text_issues>>

\* Step 7, one turn of the loop over the issues
ValidateIssue(t) ==
    /\ pc[t] = "validate"
    /\ UNCHANGED <<bvars, rvars, fvars>>
    /\ vidx[t] < Len(issues[t])
    /\ LET i     == vidx[t] + 1
           issue == issues[t][i]
       IN \E resp \in ValidationResponses(issue) :
            LET result == validate_with_api(issue, nd[t].ssid, resp)
            IN /\ issues' = [issues EXCEPT ![t][i] = apply_validation(issue, result)]
               /\ vlog' = [vlog EXCEPT ![t] =
                             Append(@, [threw |-> result.threw,
                                        validated |-> result.validated,
                                        before |-> issue])]
               /\ vidx' = [vidx EXCEPT ![t] = i]
    /\ UNCHANGED <<kb_initialized, init_calls, init_ok, calls, pc, op, nd, kb,
                   recommendations, confidence, primary_issue, text_issues, outcome, raised, stages>>

\* Step 7, after the loop: issues of severity <= 0 are dropped
ValidateDone(t) ==
    /\ pc[t] = "validate"
    /\ UNCHANGED <<bvars, rvars, fvars>>
    /\ vidx[t] = Len(issues[t])
    /\ issues' = [issues EXCEPT ![t] = KeepPositive(@)]
    /\ Goto(t, "recommend")
    /\ UNCHANGED <<kb_initialized, init_calls, init_ok, calls, op, nd, vidx,
                   vlog, kb, recommendations, confidence, primary_issue, text_issues, outcome, raised>>

\* the knowledge-base behaviours that matter to _get_recommendations: with
\* no issue it only calls get_topic_content
KbResponsesFor(found, input) ==
    LET responses == IF input.meraki_client THEN LiveKbResponses ELSE KbResponses
    IN IF found = <<>>
       THEN { k \in responses : k.fails = "get_topic_content" \/ k.answer = <<>> }
       ELSE responses

\* _get_recommendations, then (with no suspension point in between)
\* _calculate_confidence and the return of the TroubleshootingResult
Recommend(t) ==
    /\ pc[t] = "recommend"
    /\ UNCHANGED <<bvars, rvars, fvars>>
    /\ \E k \in KbResponsesFor(issues[t], nd[t]) :
          /\ kb' = [kb EXCEPT ![t] = k]
          /\ recommendations' = [recommendations EXCEPT ![t] =
                                    get_recommendations(issues[t], nd[t], k)]
    /\ confidence' = [confidence EXCEPT ![t] = calculate_confidence(issues[t], nd[t])]
    /\ primary_issue' = [primary_issue EXCEPT ![t] =
                            [recommended |-> PrimaryIssueOrNone(issues[t]),
                             result      |-> PrimaryIssueOrNone(issues[t])]]
    /\ outcome' = [outcome EXCEPT ![t] = "TroubleshootingResult"]
    /\ pc' = [pc EXCEPT ![t] = "done"]
    /\ stages' = [stages EXCEPT ![t] = Append(@, "COMPUTE_CONFIDENCE")]
    /\ UNCHANGED <<kb_initialized, init_calls, init_ok, calls, op, nd, issues,
                   vidx, vlog, raised, text_issues>>

\* the caller has taken the result (or the error): the coroutine is gone
Return(t) ==
    /\ pc[t] = "done"
    /\ UNCHANGED <<bvars, rvars, fvars>>
    /\ pc' = [pc EXCEPT ![t] = "idle"]
    /\ op' = [op EXCEPT ![t] = "none"]
    /\ nd' = [nd EXCEPT ![t] = NoInput]
    /\ issues' = [issues EXCEPT ![t] = <<>>]
    /\ vidx' = [vidx EXCEPT ![t] = 0]
    /\ vlog' = [vlog EXCEPT ![t] = <<>>]
    /\ kb' = [kb EXCEPT ![t] = NoKb]
    /\ recommendations' = [recommendations EXCEPT ![t] = <<>>]
    /\ confidence' = [confidence EXCEPT ![t] = 0 - 1]
    /\ primary_issue' = [primary_issue EXCEPT ![t] = NoPrimaryIssue]
    /\ text_issues' = [text_issues EXCEPT ![t] = NoTextIssues]
    /\ outcome' = [outcome EXCEPT ![t] = "none"]
    /\ raised' = [raised EXCEPT ![t] = "none"]
    /\ stages' = [stages EXCEPT ![t] = <<>>]
    /\ UNCHANGED <<kb_initialized, init_calls, init_ok, calls>>

\* the steps of a running call
Step(t) ==
    \/ InitializeSucceeds(t)
    \/ InitializeFails(t)
    \/ Detect(t)
    \/ ApChecks(t)
    \/ ClientChecks(t)
    \/ Fallback(t)
    \/ ValidateIssue(t)
    \/ ValidateDone(t)
    \/ Recommend(t)
    \/ Return(t)

\* ---------------------------------------------------- RFAnalyzer.batch_analyze
Serials == {"Q2XX-0001", "Q2XX-0002"}

\* A SpectrumData without data points: its access_point_serial, its band,
\* and whether it is well formed (band a FrequencyBand, channel_width a
\* ChannelWidth, the readings numbers).
SpectrumInputs ==
    { [access_point_serial |-> serial, band |-> band, channel |-> 6,
       channel_width |-> 20, data_points |-> <<>>, well_formed |-> well_formed] :
        serial \in Serials, band \in {"2.4GHz", "5GHz"}, well_formed \in BOOLEAN }

\* analyze_spectrum: every exception raised in it becomes RFAnalysisError;
\* it raises on data that is not well formed
analyze_spectrum_with(spectrum_data, float_error) ==
    [exc |-> ~spectrum_data.well_formed,
     val |-> SpectrumAnalysis(spectrum_data, float_error)]

analyze_spectrum(spectrum_data) == analyze_spectrum_with(spectrum_data, FALSE)

\* results[key] = value
DictSet(dict, key, value) ==
    [k \in (DOMAIN dict) \cup {key} |-> IF k = key THEN value ELSE dict[k]]

\* the loop of batch_analyze: the dict and the error list after it
RECURSIVE batch_loop(_, _, _)
batch_loop(list, res, errs) ==
    IF list = <<>> THEN [results |-> res, errors |-> errs]
    ELSE LET spectrum_data == Head(list)
             analysis      == analyze_spectrum(spectrum_data)
         IN IF analysis.exc
            THEN batch_loop(Tail(list), res,
                            Append(errs, spectrum_data.access_point_serial))
            ELSE batch_loop(Tail(list),
                            DictSet(res, spectrum_data.access_point_serial, analysis.val),
                            errs)

\* the batch raises on any error
batch_raises_on_any_error(res, errs) == errs # <<>>

\* `if errors and not results`
batch_raises(res, errs) == errs # <<>> /\ DOMAIN res = {}

\* batch_analyze (a synchronous method: it runs from call to return or raise)
BatchAnalyze ==
    /\ batch_outcome = "none"
    /\ \E list \in SeqsUpTo(SpectrumInputs, MaxBatch) :
          LET after == batch_loop(list, <<>>, <<>>)
          IN /\ spectrum_data_list' = list
             /\ results' = after.results
             /\ errors' = after.errors
             /\ batch_outcome' = IF batch_raises(after.results, after.errors)
                                 THEN "RFAnalysisError" ELSE "returned"
    /\ UNCHANGED <<tvars, rvars, fvars>>

\* One batch_analyze call on a new analyzer, over all the lists.
SpecBatch == Init /\ [][BatchAnalyze]_vars

\* ------------------------------------- RFTroubleshooter.batch_troubleshoot
\* The argument: a list of SpectrumData, or something that is no collection
\* (iterating it raises TypeError).
NotIterable == [iterable |-> FALSE, items |-> <<>>]

\* The items are SpectrumData of one band: no step of batch_troubleshoot
\* reads the band.
BatchArguments ==
    [iterable : {TRUE},
     items : SeqsUpTo({ d \in SpectrumInputs : d.band = "2.4GHz" }, MaxBatch)]
    \cup {NotIterable}

\* How the knowledge base behaves during one troubleshoot call: it answers,
\* get_topic_content or query raises KnowledgeBaseError, or one of them
\* raises another exception.
RfKbBehaviours == {"answers", "KnowledgeBaseError", "Exception"}

\* RFTroubleshooter.troubleshoot on an initialised troubleshooter (the flag
\* test at its head passes): RFAnalysisError of analyze_spectrum and every
\* other exception become RFTroubleshootingError; KnowledgeBaseError of
\* get_topic_content or query is caught inside _get_recommendations.
rf_troubleshoot(spectrum_data, kb_behaviour) ==
    LET spectrum_analysis == analyze_spectrum(spectrum_data)
    IN [exc |-> spectrum_analysis.exc \/ kb_behaviour = "Exception",
        val |-> [spectrum_analysis |-> spectrum_analysis.val,
                 kb_recovered |-> kb_behaviour = "KnowledgeBaseError"]]

\* batch_troubleshoot is called; an uninitialised troubleshooter awaits
\* initialize_knowledge_base before the loop
CallBatchTroubleshoot ==
    /\ rf_pc = "idle"
    /\ rf_calls < MaxCalls
    /\ \E list \in BatchArguments : rf_list' = list
    /\ rf_calls' = rf_calls + 1
    /\ rf_pc' = IF rf_kb_initialized THEN "loop" ELSE "init_kb"
    /\ rf_pos' = 0
    /\ rf_results' = <<>>
    /\ rf_log' = <<>>
    /\ rf_outcome' = "none"
    /\ UNCHANGED rf_kb_initialized
    /\ UNCHANGED <<tvars, bvars, fvars>>

\* knowledge_base.initialize() returns: the flag is set, the loop starts
RfInitializeSucceeds ==
    /\ rf_pc = "init_kb"
    /\ rf_kb_initialized' = TRUE
    /\ rf_pc' = "loop"
    /\ UNCHANGED <<rf_list, rf_pos, rf_results, rf_log, rf_outcome, rf_calls>>
    /\ UNCHANGED <<tvars, bvars, fvars>>

\* knowledge_base.initialize() raises KnowledgeBaseError:
\* initialize_knowledge_base raises RFTroubleshootingError, outside the try
\* block of batch_troubleshoot
RfInitializeFails ==
    /\ rf_pc = "init_kb"
    /\ rf_pc' = "idle"
    /\ rf_outcome' = "RFTroubleshootingError"
    /\ UNCHANGED <<rf_kb_initialized, rf_list, rf_pos, rf_results, rf_log, rf_calls>>
    /\ UNCHANGED <<tvars, bvars, fvars>>

\* a failed item ends the batch
RfTroubleshootItemAborting ==
    /\ rf_pc = "loop"
    /\ rf_list.iterable
    /\ rf_pos < Len(rf_list.items)
    /\ \E kb_behaviour \in RfKbBehaviours :
          LET spectrum_data == rf_list.items[rf_pos + 1]
              result        == rf_troubleshoot(spectrum_data, kb_behaviour)
          IN /\ rf_log' = Append(rf_log, [item |-> rf_pos + 1, raised |-> result.exc])
             /\ IF result.exc
                THEN /\ rf_pc' = "idle"
                     /\ rf_outcome' = "RFTroubleshootingError"
                     /\ UNCHANGED rf_results
                ELSE /\ rf_results' = DictSet(rf_results, spectrum_data.access_point_serial,
                                              [item |-> rf_pos + 1, result |-> result.val])
                     /\ UNCHANGED <<rf_pc, rf_outcome>>
    /\ rf_pos' = rf_pos + 1
    /\ UNCHANGED <<rf_kb_initialized, rf_list, rf_calls>>
    /\ UNCHANGED <<tvars, bvars, fvars>>

\* one turn of the loop: troubleshoot of the next item; its
\* RFTroubleshootingError is logged and the loop goes on
RfTroubleshootItem ==
    /\ rf_pc = "loop"
    /\ rf_list.iterable
    /\ rf_pos < Len(rf_list.items)
    /\ \E kb_behaviour \in RfKbBehaviours :
          LET spectrum_data == rf_list.items[rf_pos + 1]
              result        == rf_troubleshoot(spectrum_data, kb_behaviour)
          IN /\ rf_log' = Append(rf_log, [item |-> rf_pos + 1, raised |-> result.exc])
             /\ rf_results' =
                   IF result.exc THEN rf_results
                   ELSE DictSet(rf_results, spectrum_data.access_point_serial,
                                [item |-> rf_pos + 1, result |-> result.val])
    /\ rf_pos' = rf_pos + 1
    /\ UNCHANGED <<rf_kb_initialized, rf_pc, rf_list, rf_outcome, rf_calls>>
    /\ UNCHANGED <<tvars, bvars, fvars>>

\* the loop ends: `return results`, or the TypeError of iterating an
\* argument that is no collection, turned into RFTroubleshootingError
RfBatchEnds ==
    /\ rf_pc = "loop"
    /\ \/ /\ ~rf_list.iterable
          /\ rf_outcome' = "RFTroubleshootingError"
       \/ /\ rf_list.iterable
          /\ rf_pos = Len(rf_list.items)
          /\ rf_outcome' = "returned"
    /\ rf_pc' = "idle"
    /\ UNCHANGED <<rf_kb_initialized, rf_list, rf_pos, rf_results, rf_log, rf_calls>>
    /\ UNCHANGED <<tvars, bvars, fvars>>

\* MaxCalls batch_troubleshoot calls on a new RFTroubleshooter, one after
\* the other, over all the lists and knowledge-base behaviours.
NextRfBatch ==
    \/ CallBatchTroubleshoot
    \/ RfInitializeSucceeds
    \/ RfInitializeFails
    \/ RfTroubleshootItem
    \/ RfBatchEnds

SpecRfBatch == Init /\ [][NextRfBatch]_vars

\* ------------------------------------------- _calculate_confidence, alone
\* the greatest severity of the issue lists passed to the direct call
MaxSeverityValue == 100

\* Issue lists: one issue of every severity, alone or behind or ahead of
\* another issue.
ConfidenceIssueLists ==
    { <<[severity |-> s]>> : s \in 0..MaxSeverityValue }
    \cup { <<[severity |-> s], [severity |-> o]>> :
              s \in 0..MaxSeverityValue, o \in {0, 50, 100} }
    \cup { <<[severity |-> o], [severity |-> s]>> :
              s \in 0..MaxSeverityValue, o \in {0, 50, 100} }

\* network_data with each of ssid_data, client_data and issue_description
\* present or absent
ConfidenceNetworkData ==
    { [NoInput EXCEPT !.ssid.given = s, !.client.given = c,
                      !.desc = IF d THEN [is_none |-> FALSE, phrases |-> {"hello"}]
                               ELSE NoDescription] :
        s \in BOOLEAN, c \in BOOLEAN, d \in BOOLEAN }

CallCalculateConfidence ==
    /\ cf_args = <<>>
    /\ \E list \in ConfidenceIssueLists, network_data \in ConfidenceNetworkData :
          /\ cf_args' = <<[issues |-> list, network_data |-> network_data]>>
          /\ cf_confidence' = <<calculate_confidence(list, network_data)>>
    /\ UNCHANGED <<tvars, bvars, rvars, spvars, qvars, avars, dvars>>

\* One call of _calculate_confidence, over all the non-empty issue lists and
\* network data.
SpecConfidence == Init /\ [][CallCalculateConfidence]_vars

\* ------------------------------------------ RFAnalyzer.analyze_spectrum, alone
\* most data points of a kind in one SpectrumData
MaxWindowEdge == 3
MaxWeak  == 1
MaxInBand == 11
MaxQuiet == 2
MaxRadar == 2
MaxBusy == 6

DataPoint(frequency, power, utilization) ==
    [frequency |-> frequency, power |-> power, utilization |-> utilization]

Repeat(x, n) == [i \in 1..n |-> x]

\* 2.4GHz readings: the two edges of the microwave window (strong, and 11 dB
\* above a quiet reading), the middle of the window (10 dB above a quiet
\* reading), the Bluetooth window outside the microwave window, and a quiet
\* reading outside both.
DataPoints24 ==
    { Repeat(DataPoint(2445, 0 - 60, 0), a) \o Repeat(DataPoint(2465, 0 - 84, 50), b)
      \o Repeat(DataPoint(2455, 0 - 85, 100), c) \o Repeat(DataPoint(2470, 0 - 70, 30), d)
      \o Repeat(DataPoint(2400, 0 - 95, 0), e) :
        a \in 0..MaxWindowEdge, b \in 0..MaxWindowEdge, c \in 0..MaxWeak,
        d \in 0..MaxInBand, e \in 0..MaxQuiet }

\* 2.4GHz readings of a busy channel: full utilization, a noise floor of
\* -80 dBm, strong readings inside the microwave window and weaker ones
\* outside it.
DataPointsBusy ==
    { Repeat(DataPoint(2450, 0 - 50, 100), a) \o Repeat(DataPoint(2470, 0 - 70, 100), b)
      \o <<DataPoint(2400, 0 - 80, 100)>> :
        a \in 0..MaxBusy, b \in 0..MaxBusy }

\* 5GHz and 6GHz readings: the two edges of the radar window (strong, and
\* 16 dB above a quiet reading), and a quiet reading outside it.
DataPoints5 ==
    { Repeat(DataPoint(5250, 0 - 60, 0), a) \o Repeat(DataPoint(5350, 0 - 79, 90), b)
      \o Repeat(DataPoint(5200, 0 - 95, 10), e) :
        a \in 0..MaxRadar, b \in 0..MaxRadar, e \in 0..MaxQuiet }

ChannelWidths == {20, 40, 80, 160}

\* The SpectrumData analysed: every band, channel and width without data
\* points; the readings above on their band; data that is not well formed.
AnalysisInputs ==
    { [access_point_serial |-> "Q2XX-0001", band |-> band, channel |-> channel,
       channel_width |-> width, data_points |-> <<>>, well_formed |-> well_formed] :
        band \in {"2.4GHz", "5GHz", "6GHz"}, channel \in {1, 36},
        width \in ChannelWidths, well_formed \in BOOLEAN }
    \cup
    { [access_point_serial |-> "Q2XX-0001", band |-> "2.4GHz", channel |-> 6,
       channel_width |-> 20, data_points |-> points, well_formed |-> TRUE] :
        points \in DataPoints24 \cup DataPointsBusy }
    \cup
    { [access_point_serial |-> "Q2XX-0001", band |-> band, channel |-> 36,
       channel_width |-> 80, data_points |-> points, well_formed |-> TRUE] :
        band \in {"5GHz", "6GHz"}, points \in DataPoints5 }

\* analyze_spectrum is called (a synchronous method)
AnalyzeSpectrum ==
    /\ sp_args = <<>>
    /\ \E spectrum_data \in AnalysisInputs, float_error \in BOOLEAN :
          /\ sp_args' = <<spectrum_data>>
          /\ sp_analysis' = <<analyze_spectrum_with(spectrum_data, float_error)>>
    /\ UNCHANGED <<tvars, bvars, rvars, cfvars, qvars, avars, dvars>>

\* One analyze_spectrum call, over all the data above.
SpecSpectrum == Init /\ [][AnalyzeSpectrum]_vars

\* ----------------------------- detect_ambiguities and _merge_contexts, alone
\* longest list of a category
MaxTerms == 2

\* terms that differ, two of them by case only
Terms == {"Corp", "corp", "Guest"}

TermLists == SeqsUpTo(Terms, MaxTerms)

\* Contexts with any SSID names and network identifiers, and a room that is
\* or is not also a building.
AmbiguityInputs ==
    { [EmptyContext EXCEPT !.ssid_names = ssids, !.network_identifiers = networks,
                           !.location_identifiers = rooms,
                           !.building_identifiers = buildings] :
        ssids \in TermLists, networks \in TermLists,
        rooms \in { <<>>, <<"w23">> }, buildings \in { <<>>, <<"w23">> } }

\* detect_ambiguities is called (it only reads the context)
DetectAmbiguities ==
    /\ da_args = <<>>
    /\ \E context \in AmbiguityInputs :
          /\ da_args' = <<context>>
          /\ da_ambiguities' = <<detect_ambiguities(context)>>
    /\ UNCHANGED <<mg_args, mg_after, ex_args, ex_context, ex_steps>>
    /\ UNCHANGED <<tvars, bvars, rvars, cfvars, spvars, avars, dvars>>

\* One detect_ambiguities call, over all these contexts.
SpecAmbiguities == Init /\ [][DetectAmbiguities]_vars

\* Pairs of contexts: any two lists in one category, fixed lists in the
\* others.
MergeInputs ==
    { << [attr \in CategorySet |-> IF attr = category THEN primary_list
                                   ELSE <<"Guest">>],
         [attr \in CategorySet |-> IF attr = category THEN secondary_list
                                   ELSE <<"Guest", "Corp">>] >> :
        category \in CategorySet, primary_list \in TermLists,
        secondary_list \in TermLists }

\* _merge_contexts is called
MergeContexts ==
    /\ mg_args = <<>>
    /\ \E pair \in MergeInputs :
          LET merged == merge_contexts(pair[1], pair[2])
          IN /\ mg_args' = pair
             /\ mg_after' = <<merged.primary, merged.secondary>>
    /\ UNCHANGED <<da_args, da_ambiguities, ex_args, ex_context, ex_steps>>
    /\ UNCHANGED <<tvars, bvars, rvars, cfvars, spvars, avars, dvars>>

\* One _merge_contexts call, over all these pairs.
SpecMerge == Init /\ [][MergeContexts]_vars

\* ------------------------------------------- extract_context_from_query, alone
\* most words of a query
MaxWords == 3

\* the pieces of a query: six words, a room, and a run of whitespace
Words == {"laptop", "urgent", "at", "Home", "connect", "to", "w23", " "}

\* the empty query and the queries of up to MaxWords words
Queries == SeqsUpTo(Words, MaxWords)

\* extract_context_from_query is called; whether NLTK is there, whether the
\* NLP extraction raises and what the tagger answers are the environment's
ExtractContext ==
    /\ ex_args = <<>>
    /\ \E query \in Queries, path \in ExtractionPaths, tagger \in Taggers :
          /\ ex_args' = <<query, path, tagger>>
          /\ ex_context' = <<extract_context_from_query(query, path, tagger)>>
          /\ ex_steps' = extraction_steps(query, path)
    /\ UNCHANGED <<da_args, da_ambiguities, mg_args, mg_after>>
    /\ UNCHANGED <<tvars, bvars, rvars, cfvars, spvars, avars, dvars>>

\* One extract_context_from_query call, over all these queries.
SpecExtract == Init /\ [][ExtractContext]_vars

\* -------------------------------------------- _check_ap_configurations, alone
\* SSID data the AP checks read: none, a plain SSID, one restricted by tags
ApCheckSsids ==
    { s \in SsidInputs : s.enabled /\ s.broadcasting /\ s.authMode = "psk"
                         /\ ~s.pmf_required /\ (s.given => s.has_number) }

\* _check_ap_configurations is called, with or without a device accessor
CheckApConfigurations ==
    /\ ap_args = <<>>
    /\ \E meraki_client \in BOOLEAN, ssid \in ApCheckSsids,
          devices \in DevicesResponses, status \in StatusResponses :
          /\ ap_args' = <<[meraki_client |-> meraki_client, ssid |-> ssid,
                           devices |-> devices, status |-> status]>>
          /\ ap_issues' = <<IF meraki_client
                            THEN check_ap_configurations(ssid, devices, status)
                            ELSE <<>> >>
    /\ UNCHANGED <<tvars, bvars, rvars, cfvars, spvars, qvars, dvars>>

\* One _check_ap_configurations call, over all these answers of the accessor.
SpecApChecks == Init /\ [][CheckApConfigurations]_vars

\* ------------------------------------------- SpectrumData.add_data_point
MaxPoints == 3
MaxTimestamp == 3

\* SpectrumDataPoint values: timestamps from 0, two power readings
TimedPoints ==
    { [frequency |-> 2437, power |-> power, utilization |-> 10, timestamp |-> timestamp] :
        power \in {0 - 60, 0 - 80}, timestamp \in 0..MaxTimestamp }

\* add_data_point: the point is appended; start_time is replaced when it is
\* 0 or later than the point, end_time when it is earlier than the point
add_data_point(self, data_point) ==
    LET start_time == IF self.start_time = 0 \/ data_point.timestamp < self.start_time
                      THEN data_point.timestamp ELSE self.start_time
        end_time   == IF data_point.timestamp > self.end_time
                      THEN data_point.timestamp ELSE self.end_time
    IN [data_points |-> Append(self.data_points, data_point),
        start_time  |-> start_time,
        end_time    |-> end_time]

AddDataPoint ==
    /\ Len(sd_added) < MaxPoints
    /\ \E data_point \in TimedPoints :
          /\ sd_added' = Append(sd_added, data_point)
          /\ sd_data' = add_data_point(sd_data, data_point)
    /\ UNCHANGED <<tvars, bvars, rvars, cfvars, spvars, qvars, avars>>

\* Up to MaxPoints calls of add_data_point on a SpectrumData created with
\* the default data_points, start_time and end_time.
SpecAddDataPoint == Init /\ [][AddDataPoint]_vars

\* --------------------------------------------------------- specifications
\* Inputs of the calls made one after the other or at the same time: none,
\* a disabled SSID, a description that no check reads, and (one after the
\* other only) a disabled SSID with a device accessor.
OfflineInputs ==
    { NoInput,
      [NoInput EXCEPT !.ssid = [NoSsid EXCEPT !.given = TRUE, !.enabled = FALSE,
                                              !.authMode = "psk", !.has_number = TRUE,
                                              !.has_name = TRUE]],
      [NoInput EXCEPT !.desc = [is_none |-> FALSE, phrases |-> {"hello"}]] }

SequentialInputs ==
    OfflineInputs \cup
    { [NoInput EXCEPT !.ssid = [NoSsid EXCEPT !.given = TRUE, !.enabled = FALSE,
                                              !.authMode = "psk", !.has_number = TRUE,
                                              !.has_name = TRUE],
                      !.meraki_client = TRUE] }

\* MaxCalls calls of troubleshoot or initialize_knowledge_base on one
\* troubleshooter, each started after the one before has ended.
NextSequential ==
    \/ CallTroubleshoot(1, SequentialInputs, MaxCalls)
    \/ CallInitializeKnowledgeBase(1, MaxCalls)
    \/ Step(1)

SpecSequential == Init /\ [][NextSequential]_vars

\* the steps of a call without a device accessor
OfflineStep(t) ==
    \/ InitializeSucceeds(t)
    \/ InitializeFails(t)
    \/ Detect(t)
    \/ Fallback(t)
    \/ Recommend(t)

\* NumTasks coroutines, each making one troubleshoot call on the same
\* troubleshooter; a coroutine runs until its next await, where any other
\* may run.
NextConcurrent ==
    \E t \in Tasks :
        \/ CallTroubleshoot(t, OfflineInputs, NumTasks)
        \/ OfflineStep(t)

SpecConcurrent == Init /\ [][NextConcurrent]_vars

\* One troubleshoot call on a new troubleshooter, over all the inputs.
Next ==
    \/ CallTroubleshoot(1, TroubleshootInputs, 1)
    \/ Step(1)

Spec == Init /\ [][Next]_vars

\* ------------------------------------------------- properties of one call
\* the call of coroutine t has returned a TroubleshootingResult
Returned(t) == outcome[t] = "TroubleshootingResult"

Recs(t) == { recommendations[t][i] : i \in 1..Len(recommendations[t]) }

\* The six phrases, in lower case.
DisablePhrases ==
    { <<"disable", "open-enhanced">>, <<"turn off", "open-enhanced">>,
      <<"disable", "open", "enhanced">>, <<"turn off", "open", "enhanced">>,
      <<"removing", "open-enhanced">>, <<"removing", "open", "enhanced">> }

\* the text holds one of the six phrases, whatever the letter case
AsksToDisable(text) == \E ph \in DisablePhrases : Contains(LowerStr(text), ph)

\* C1: no recommendation of a returned TroubleshootingResult contains, in
\* any letter case, one of the six phrases that ask to disable, turn off or
\* remove Open-Enhanced, whatever the issues and the knowledge-base answer.
C1_NoDisableOpenEnhanced ==
    \A t \in Tasks : Returned(t) => \A rec \in Recs(t) : ~AsksToDisable(rec)

\* C1 case: a result was returned after the knowledge base answered with a
\* text that asks to disable Open-Enhanced.
C1_Witness ==
    \E t \in Tasks : Returned(t) /\ kb[t].fails = "none" /\ AsksToDisable(kb[t].answer)

\* C2 (as stated): whenever the knowledge-base answer (or a rule string)
\* matched the disable pattern, the returned recommendations hold the
\* statement 'Maintain Open-Enhanced configuration as enabled ...'.
C2_ReaffirmedWhenMatched ==
    \A t \in Tasks :
        (Returned(t) /\ issues[t] # <<>> /\ kb[t].fails = "none"
           /\ AsksToDisable(kb[t].answer))
        => ReaffirmingStatement \in Recs(t)

\* C3 (as stated): when detection found nothing and a description is given,
\* the fallback runs and the call returns a result whose issues are those of
\* the keyword rules.
C3_FallbackReturnsKeywordIssues ==
    \A t \in Tasks :
        ("FALLBACK_TEXT_ANALYSIS" \in { stages[t][i] : i \in 1..Len(stages[t]) }
           /\ pc[t] = "done")
        => /\ Returned(t)
           /\ ~nd[t].meraki_client => issues[t] = analyze_issue_description(nd[t].desc)

\* the input of C4: a disabled SSID, no client data, no description, no
\* device accessor
DisabledOnly(t) ==
    /\ op[t] = "troubleshoot"
    /\ nd[t].ssid.given /\ ~nd[t].ssid.enabled
    /\ ~nd[t].client.given /\ nd[t].desc.is_none /\ ~nd[t].meraki_client

\* C4: a call with a disabled SSID, no client data, no description and no
\* device accessor that returns a result returns exactly one issue,
\* configuration / ssid_disabled of severity 90, and recommendations that
\* include 'Enable the SSID in the Meraki dashboard'; such a call fails only
\* when the initialisation of the knowledge base failed.
C4_DisabledSsid ==
    \A t \in Tasks :
        (DisabledOnly(t) /\ pc[t] = "done")
        => \/ /\ Returned(t)
              /\ Len(issues[t]) = 1
              /\ issues[t][1].issue_type = "configuration"
              /\ issues[t][1].issue_subtype = "ssid_disabled"
              /\ issues[t][1].severity = 90
              /\ <<"Enable the SSID in the Meraki dashboard">> \in Recs(t)
           \/ raised[t] = "KnowledgeBaseError in initialize"

\* C4 case: such a call has returned, for an SSID that also is restricted,
\* not broadcasting and open with PMF required.
C4_Witness ==
    \E t \in Tasks :
        /\ DisabledOnly(t) /\ Returned(t)
        /\ nd[t].ssid.restricted /\ ~nd[t].ssid.broadcasting
        /\ nd[t].ssid.pmf_required /\ nd[t].ssid.authMode = "open"

\* ------------------------------------------------------------ stage order
StagesOf(t) == { stages[t][i] : i \in 1..Len(stages[t]) }

\* the place of each stage in the order the code runs them
StageRank(stage) ==
    CASE stage = "INIT_KB"                -> 1
      [] stage = "DETECT_ISSUES"          -> 2
      [] stage = "FALLBACK_TEXT_ANALYSIS" -> 3
      [] stage = "VALIDATE_ISSUES"        -> 4
      [] stage = "FETCH_RECOMMENDATIONS"  -> 5
      [] stage = "COMPUTE_CONFIDENCE"     -> 6

C8_AccessorFailureRecovered ==
    \A t \in Tasks :
        (pc[t] = "done" /\ \E i \in 1..Len(vlog[t]) : vlog[t][i].threw)
        => /\ Returned(t)
           /\ Len(vlog[t]) = Len(issues[t])
           /\ \A i \in 1..Len(vlog[t]) :
                 vlog[t][i].threw =>
                    /\ ~vlog[t][i].validated
                    /\ issues[t][i] = vlog[t][i].before
                    /\ issues[t][i].validation_details = NoDetails

\* C8 case: a result was returned after the accessor raised for the first
\* issue and answered for a later one.
C8_Witness ==
    \E t \in Tasks :
        /\ Returned(t) /\ Len(vlog[t]) >= 2
        /\ vlog[t][1].threw
        /\ \E i \in 2..Len(vlog[t]) : vlog[t][i].validated

\* ------------------------------------------- failures of the knowledge base
\* the recommendations of the rules alone
RuleBased(t) ==
    IF issues[t] = <<>> THEN GeneralGuidance
    ELSE SafeFilter(Deduplicate(
            RuleRecommendations(PrimaryIssueOf(issues[t]), nd[t].ssid), <<>>))

\* C9 (as stated): no troubleshoot call ends in an error because a
\* knowledge-base call (initialize included) failed.
C9_EveryKbFailureRecovered ==
    \A t \in Tasks : raised[t] # "KnowledgeBaseError in initialize"

\* C9 (amended): a failure of get_topic_content or query is recovered: the
\* call returns a result with the detected issues and the recommendations
\* of the rules; a failure of initialize ends the one call made on the
\* troubleshooter in WifiTroubleshootingError.
C9_KbFailures ==
    \A t \in Tasks :
        /\ kb[t].fails \in {"get_topic_content", "query"}
             => (Returned(t) /\ recommendations[t] = RuleBased(t))
        /\ (op[t] = "troubleshoot" /\ pc[t] \notin {"idle", "init_kb"} /\ init_ok = 0)
             => (outcome[t] = "WifiTroubleshootingError"
                   /\ raised[t] = "KnowledgeBaseError in initialize")

\* C9 case: a result with issues was returned although query raised.
C9_Witness ==
    \E t \in Tasks : Returned(t) /\ kb[t].fails = "query" /\ issues[t] # <<>>

\* ------------------------------------- initialisation of the knowledge base
\* invocations of knowledge_base.initialize() that are pending
Pending == { t \in Tasks : pc[t] = "init_kb" }

\* C6: in calls made one after the other, once knowledge_base.initialize()
\* has completed successfully it is not invoked again: it succeeds at most
\* once, and after a success the flag is set and no call is in INIT_KB.
C6_InitializedOnce ==
    /\ init_ok <= 1
    /\ init_ok = 1 => (Pending = {} /\ kb_initialized)

\* C6 case: after a call that initialised the knowledge base, a later
\* troubleshoot call has gone straight to detection.
C6_Witness ==
    \E t \in Tasks :
        /\ calls >= 2 /\ init_ok = 1 /\ init_calls = 1
        /\ op[t] = "troubleshoot" /\ pc[t] = "detect"
        /\ stages[t] = <<"DETECT_ISSUES">>

\* C7 (as stated): with concurrent first calls, knowledge_base.initialize()
\* is invoked at most once: the invocations that have not failed (pending
\* or completed) are never more than one.
C7_InitializeInvokedOnce == init_ok + Cardinality(Pending) <= 1

\* --------------------------------------------------------------- the batch
Inputs == 1..Len(spectrum_data_list)
Succeeded == { i \in Inputs : spectrum_data_list[i].well_formed }
Failed == Inputs \ Succeeded
SerialOf(i) == spectrum_data_list[i].access_point_serial

\* C10 (as stated): every input whose analysis succeeded has an entry in
\* the returned map and the failed inputs have none.
C10_EntryPerInput ==
    batch_outcome = "returned" =>
        /\ \A i \in Succeeded : SerialOf(i) \in DOMAIN results
        /\ \A i \in Failed : SerialOf(i) \notin DOMAIN results

\* C10 (amended): the map returned holds, for each serial, the analysis of
\* the last input of that serial that succeeded, and has no entry for a
\* serial none of whose inputs succeeded; a failure is not raised while an
\* input succeeded; the call raises RFAnalysisError exactly when an input
\* failed and none succeeded, with one sub-error per failed input, in order.
C10_EntryPerSerial ==
    batch_outcome # "none" =>
        /\ DOMAIN results = { SerialOf(i) : i \in Succeeded }
        /\ \A i \in Succeeded :
              (\A j \in Succeeded : SerialOf(j) = SerialOf(i) => j <= i)
                 => results[SerialOf(i)].spectrum_data = spectrum_data_list[i]
        /\ Succeeded # {} => batch_outcome = "returned"
        /\ batch_outcome = "RFAnalysisError" <=> (Failed # {} /\ Succeeded = {})
        /\ Len(errors) = Cardinality(Failed)
        /\ \A k \in 1..Len(errors) :
              \E i \in Failed :
                 /\ Cardinality({ j \in Failed : j <= i }) = k
                 /\ errors[k] = SerialOf(i)

\* C10 case: three inputs of which the second failed, the first and the
\* third having the same serial.
C10_Witness ==
    /\ batch_outcome = "returned"
    /\ Len(spectrum_data_list) = 3
    /\ Failed = {2}
    /\ SerialOf(1) = SerialOf(3) /\ SerialOf(2) # SerialOf(1)

\* ---- C11
RfItems == 1..Len(rf_list.items)
RfTaken == { rf_log[k].item : k \in 1..Len(rf_log) }
RfSucceeded == { rf_log[k].item : k \in { j \in 1..Len(rf_log) : ~rf_log[j].raised } }
RfSerialOf(i) == rf_list.items[i].access_point_serial

\* C11 as stated: batch_troubleshoot takes the items one by one in list
\* order, an item whose troubleshoot failed has no entry in the returned map
\* and later items are still processed, and the call fails only when its
\* argument cannot be iterated (never because of the knowledge base).
C11_FailsOnlyIfNotIterable ==
    /\ \A k \in 1..Len(rf_log) : rf_log[k].item = k
    /\ rf_outcome = "returned" =>
          /\ RfTaken = RfItems
          /\ \A i \in RfItems \ RfSucceeded : RfSerialOf(i) \notin DOMAIN rf_results
    /\ rf_outcome = "RFTroubleshootingError" => ~rf_list.iterable

\* C11 amended: the items are taken one by one in list order and a failed
\* item (malformed data, or a knowledge-base exception other than
\* KnowledgeBaseError) never stops the loop; the returned map is keyed by
\* serial and holds, per serial, the result of the last item of that serial
\* whose troubleshoot succeeded, so it is empty when every item failed; a
\* KnowledgeBaseError of get_topic_content or query does not fail the item;
\* the call fails exactly when the initialisation of the knowledge base
\* failed at its start (no item taken) or its argument cannot be iterated.
C11_BatchTroubleshoot ==
    /\ Len(rf_log) = rf_pos
    /\ \A k \in 1..Len(rf_log) :
          /\ rf_log[k].item = k
          /\ ~rf_list.items[k].well_formed => rf_log[k].raised
    /\ DOMAIN rf_results = { RfSerialOf(i) : i \in RfSucceeded }
    /\ \A i \in RfSucceeded :
          LET last == CHOOSE j \in RfSucceeded :
                         /\ RfSerialOf(j) = RfSerialOf(i)
                         /\ \A l \in RfSucceeded : RfSerialOf(l) = RfSerialOf(i) => l <= j
          IN rf_results[RfSerialOf(i)].item = last
    /\ rf_outcome = "returned" => RfTaken = RfItems /\ rf_kb_initialized
    /\ rf_outcome = "RFTroubleshootingError" =>
          /\ rf_log = <<>>
          /\ ~rf_kb_initialized \/ ~rf_list.iterable

\* a batch of three items returned with the second one failed and a later
\* one kept, after a KnowledgeBaseError was recovered in a kept item
C11_Witness ==
    /\ rf_outcome = "returned"
    /\ Len(rf_list.items) = 3
    /\ rf_log[2].raised
    /\ 3 \in RfSucceeded
    /\ \E serial \in DOMAIN rf_results : rf_results[serial].result.kb_recovered

\* ---- C12
\* C12: the confidence of every TroubleshootingResult is an integer of
\* 0..100, and it is 50 whenever the returned issue list is empty, whichever
\* of ssid_data, client_data and issue_description were supplied.
C12_ConfidenceRange ==
    \A t \in Tasks :
        Returned(t) =>
            /\ confidence[t] \in 0..100
            /\ issues[t] = <<>> => confidence[t] = 50

\* a result without issues for a call that supplied SSID and client data
C12_Witness ==
    /\ Returned(1)
    /\ issues[1] = <<>>
    /\ nd[1].ssid.given
    /\ nd[1].client.given
    /\ confidence[1] = 50

\* ---- C13
CfCalled == cf_args # <<>>
CfMaxSeverity ==
    LET list == cf_args[1].issues
    IN CHOOSE m \in { list[i].severity : i \in 1..Len(list) } :
          \A i \in 1..Len(list) : list[i].severity <= m
CfCompleteness ==
    LET network_data == cf_args[1].network_data
    IN (IF network_data.ssid.given THEN 30 ELSE 0)
     + (IF network_data.client.given THEN 30 ELSE 0)
     + (IF ~network_data.desc.is_none THEN 20 ELSE 0)
\* 10 * (0.6 * max_issue_severity + 0.4 * data_completeness)
CfTenfold == 6 * CfMaxSeverity + 4 * CfCompleteness

\* C13 as stated: for a non-empty issue list the confidence is
\* round(0.6 * max_issue_severity + 0.4 * data_completeness) clamped to
\* 0..100, the nearest integer c, that is 10c - 5 <= tenfold < 10c + 5.
C13_RoundedConfidence ==
    CfCalled =>
        LET c == cf_confidence[1]
        IN \/ c = 100 /\ CfTenfold >= 995
           \/ c \in 0..100 /\ 10 * c - 5 <= CfTenfold /\ CfTenfold < 10 * c + 5

\* C13 amended: for a non-empty issue list the confidence is
\* 0.6 * max_issue_severity + 0.4 * data_completeness truncated to an
\* integer (10c <= tenfold < 10c + 10) and capped at 100, with
\* data_completeness = 30 (SSID data) + 30 (client data) + 20 (description).
C13_TruncatedConfidence ==
    CfCalled =>
        LET c == cf_confidence[1]
        IN \/ c = 100 /\ CfTenfold >= 1000
           \/ c \in 0..100 /\ 10 * c <= CfTenfold /\ CfTenfold < 10 * c + 10

\* severity 81 with SSID data and a description: 48.6 + 20 = 68.6 gives 68
C13_Witness ==
    /\ CfCalled
    /\ CfMaxSeverity = 81
    /\ CfCompleteness = 50
    /\ cf_confidence = <<68>>

\* ---- C14
\* the candidates of a returned call in the order the code appends them:
\* the rule-based recommendations, then the knowledge-base answer
Candidates(t) ==
    IF issues[t] = <<>> THEN GeneralGuidance
    ELSE RuleRecommendations(PrimaryIssueOf(issues[t]), nd[t].ssid)
         \o KbRecommendations(kb[t])

\* a recommendation without the Open-Enhanced annotation
EndsWithNote(rec) ==
    /\ Len(rec) > Len(OpenEnhancedNote)
    /\ SubSeq(rec, Len(rec) - Len(OpenEnhancedNote) + 1, Len(rec)) = OpenEnhancedNote
Unannotated(rec) ==
    IF EndsWithNote(rec) THEN SubSeq(rec, 1, Len(rec) - Len(OpenEnhancedNote)) ELSE rec

\* where a string is first seen among the candidates (0: nowhere)
FirstSeen(rec, candidates) ==
    IF \E i \in 1..Len(candidates) : candidates[i] = rec
    THEN CHOOSE i \in 1..Len(candidates) :
            candidates[i] = rec /\ \A j \in 1..(i - 1) : candidates[j] # rec
    ELSE 0

\* C14: the recommendations of every TroubleshootingResult hold no two equal
\* strings, and they stand in the order in which their candidates were first
\* seen, rule-based ones before the knowledge-base answer, the annotation
\* and the reaffirming statement (last, when present) included.
C14_UniqueInFirstSeenOrder ==
    \A t \in Tasks :
        Returned(t) =>
            LET recs == recommendations[t]
                Origin(i) == FirstSeen(Unannotated(recs[i]), Candidates(t))
            IN /\ \A i, j \in 1..Len(recs) : i # j => recs[i] # recs[j]
               /\ \A i \in 1..Len(recs) :
                     \/ Origin(i) > 0
                     \/ i = Len(recs) /\ recs[i] = ReaffirmingStatement
               /\ \A i, j \in 1..Len(recs) :
                     (i < j /\ Origin(j) > 0) => Origin(i) < Origin(j)
               /\ \A k \in 1..Len(Candidates(t)) :
                     ~ContainsAnyLower(Candidates(t)[k], FilterUnsafeTerms) =>
                        \E i \in 1..Len(recs) : Unannotated(recs[i]) = Candidates(t)[k]

\* a result whose knowledge-base answer repeated the rule-based
\* recommendation, which is returned once
C14_Witness ==
    /\ Returned(1)
    /\ kb[1].fails = "none"
    /\ kb[1].answer = <<"Enable the SSID in the Meraki dashboard">>
    /\ RuleRecommendations(PrimaryIssueOf(issues[1]), nd[1].ssid) = <<kb[1].answer>>
    /\ recommendations[1] = <<kb[1].answer>>

\* ---- C15
Analysed == sp_args # <<>> /\ ~sp_analysis[1].exc
Analysis == sp_analysis[1].val
Sources == Analysis.interference_sources
HasSource(type) == \E i \in 1..Len(Sources) : Sources[i].type = type

\* C15: every SpectrumAnalysis returned by analyze_spectrum, on any band,
\* has a channel_quality of 0..100, and every InterferenceSource in it an
\* impact_level and a confidence of 0..100.
C15_ScoresInRange ==
    Analysed =>
        /\ Analysis.channel_quality \in 0..100
        /\ \A i \in 1..Len(Sources) :
              /\ Sources[i].impact_level \in 0..100
              /\ Sources[i].confidence \in 0..100

\* an analysis with the microwave and the Bluetooth source, the first with
\* its impact capped at 100, whose deductions exceed 100 and whose quality
\* is 0
C15_Witness ==
    /\ Analysed
    /\ Len(Sources) = 2
    /\ Sources[1].impact_level = 100
    /\ Sources[2].impact_level \in 1..99
    /\ QualityScore(sp_args[1], Analysis.noise_floor, Sources) < 0
    /\ Analysis.channel_quality = 0

\* ---- C16
\* the data points of the microwave window whose power exceeds the noise
\* floor by more than 10
MicrowavePoints ==
    { i \in 1..Len(sp_args[1].data_points) :
        LET dp == sp_args[1].data_points[i]
        IN /\ dp.frequency \in 2445..2465
           /\ dp.power > Analysis.noise_floor + 10 }

\* C16: on the 2.4GHz band a microwave source is emitted if and only if at
\* least 6 data points lie in [2445,2465] MHz with power > noise_floor + 10;
\* with exactly 5 such points there is none.
C16_MicrowaveFromSixPoints ==
    (Analysed /\ sp_args[1].band = "2.4GHz") =>
        /\ HasSource("microwave") <=> Cardinality(MicrowavePoints) >= 6
        /\ Cardinality(MicrowavePoints) = 5 => ~HasSource("microwave")

\* six such points at the two edges of the window, next to a reading of the
\* window that is exactly 10 dB above the noise floor
C16_Witness ==
    /\ Analysed
    /\ sp_args[1].band = "2.4GHz"
    /\ Cardinality(MicrowavePoints) = 6
    /\ HasSource("microwave")
    /\ \E i \in 1..Len(sp_args[1].data_points) :
          /\ sp_args[1].data_points[i].frequency = 2455
          /\ sp_args[1].data_points[i].power = Analysis.noise_floor + 10

\* ---- C17
\* C17: for a SpectrumData without data points, of any band, channel and
\* width, analyze_spectrum does not fail and returns a noise floor of -95,
\* no interference source and a channel quality of 100.
C17_NoDataPoints ==
    (sp_args # <<>> /\ sp_args[1].well_formed /\ sp_args[1].data_points = <<>>) =>
        /\ ~sp_analysis[1].exc
        /\ Analysis.noise_floor = 0 - 95
        /\ Analysis.interference_sources = <<>>
        /\ Analysis.channel_quality = 100

\* the analysis of a 6GHz SpectrumData of width 160 without data points
C17_Witness ==
    /\ Analysed
    /\ sp_args[1].data_points = <<>>
    /\ sp_args[1].band = "6GHz"
    /\ sp_args[1].channel_width = 160
    /\ Analysis.channel_quality = 100

\* ---- C18
Elements(list) == { list[i] : i \in 1..Len(list) }
NoDuplicates(list) == \A i, j \in 1..Len(list) : i # j => list[i] # list[j]

\* C18: detect_ambiguities lists a term under 'ssid_network' if and only if
\* the term is in both ssid_names and network_identifiers of the context,
\* and lists it once.
C18_SsidNetworkAmbiguity ==
    da_args # <<>> =>
        /\ Elements(da_ambiguities[1].ssid_network) =
              Elements(da_args[1].ssid_names)
              \cap Elements(da_args[1].network_identifiers)
        /\ NoDuplicates(da_ambiguities[1].ssid_network)

\* a context that names 'Corp' twice as an SSID and once as a network,
\* and 'corp' as a network only
C18_Witness ==
    /\ da_args # <<>>
    /\ da_args[1].ssid_names = <<"Corp", "Corp">>
    /\ da_args[1].network_identifiers = <<"corp", "Corp">>
    /\ da_ambiguities[1].ssid_network = <<"Corp">>

\* ---- C20
\* C20: after _merge_contexts(primary, secondary), in every category the
\* values primary held stand unchanged and in the same order at the front
\* of its list, every value of secondary is present, what was added are
\* values of secondary that primary did not hold, each added once, and
\* secondary is unchanged.
C20_MergeKeepsPrimary ==
    mg_args # <<>> =>
        /\ mg_after[2] = mg_args[2]
        /\ \A attr \in CategorySet :
              LET before == mg_args[1][attr]
                  after  == mg_after[1][attr]
                  added  == SubSeq(after, Len(before) + 1, Len(after))
              IN /\ Len(after) >= Len(before)
                 /\ SubSeq(after, 1, Len(before)) = before
                 /\ Elements(mg_args[2][attr]) \subseteq Elements(after)
                 /\ Elements(added) = Elements(mg_args[2][attr]) \ Elements(before)
                 /\ NoDuplicates(added)

\* a merge whose secondary list holds a value of primary and a new value
\* twice
C20_Witness ==
    /\ mg_args # <<>>
    /\ \E attr \in CategorySet :
          /\ mg_args[1][attr] = <<"Corp">>
          /\ mg_args[2][attr] = <<"Guest", "Guest">>
          /\ mg_after[1][attr] = <<"Corp", "Guest">>
    /\ \E attr \in CategorySet :
          /\ mg_args[1][attr] = <<"Guest">>
          /\ mg_args[2][attr] = <<"Guest", "Corp">>
          /\ mg_after[1][attr] = <<"Guest", "Corp">>

\* ---- C19
\* C19: for every query and on every extraction path, each category list
\* of the QueryContext that extract_context_from_query returns holds no
\* value twice.
C19_NoDuplicateValues ==
    ex_args # <<>> =>
        \A attr \in CategorySet : NoDuplicates(ex_context[1][attr])

\* ---- C21
ExCalled == ex_args # <<>>
ExQuery == ex_args[1]
ExPath == ex_args[2]

\* C21 as stated: for every non-empty query, when NLTK is unavailable or the
\* NLP extraction raises, the call returns exactly the regex-only result,
\* and the regex extraction is applied on every path.
C21_RegexOnEveryNonEmptyQuery ==
    (ExCalled /\ ExQuery # <<>>) =>
        /\ ex_steps[Len(ex_steps)] = "return"
        /\ In("regex", ex_steps)
        /\ ExPath # "nlp" => ex_context[1] = extract_context_with_regex(ExQuery)

\* C21: for every query that is not blank, when NLTK is unavailable or the
\* NLP extraction raises, the call returns exactly the regex-only result
\* and nothing of the NLP extraction, and the regex extraction is applied
\* on every path; a query of whitespace only returns the empty context and
\* no extraction is applied.
C21_RegexFallback ==
    ExCalled =>
        /\ ex_steps[Len(ex_steps)] = "return"
        /\ In("regex", ex_steps) <=> ~IsBlank(ExQuery)
        /\ IsBlank(ExQuery) => ex_context[1] = EmptyContext
        /\ ExPath # "nlp" => ex_context[1] = extract_context_with_regex(ExQuery)

\* the NLP extraction of 'urgent laptop' raises: the compound it would have
\* found is not returned
C21_Witness ==
    /\ ExCalled
    /\ ExQuery = <<"urgent", "laptop">>
    /\ ExPath = "nlp_raises"
    /\ In("except", ex_steps)
    /\ ex_context[1].device_types = <<"laptop">>
    /\ In("urgent laptop", extract_context_with_nlp(ExQuery, ex_args[3]).device_types)

\* ---- C22
\* C22: in every TroubleshootingResult, primary_issue is None when issues
\* is empty, and otherwise the element of issues of maximal severity, the
\* earliest one among equal maxima; _get_recommendations chose its
\* rule-based recommendations for that same issue.
C22_PrimaryIssue ==
    \A t \in { u \in Tasks : Returned(u) } :
        /\ primary_issue[t].recommended = primary_issue[t].result
        /\ IF issues[t] = <<>>
           THEN primary_issue[t].result = <<>>
           ELSE \E i \in 1..Len(issues[t]) :
                   /\ primary_issue[t].result = <<issues[t][i]>>
                   /\ \A j \in 1..Len(issues[t]) :
                         issues[t][j].severity <= issues[t][i].severity
                   /\ \A j \in 1..(i - 1) :
                         issues[t][j].severity < issues[t][i].severity

\* a result whose two most severe issues are of equal severity and of
\* different subtypes: the earlier one is the primary issue
C22_Witness ==
    \E t \in { u \in Tasks : Returned(u) } :
        \E i, j \in 1..Len(issues[t]) :
            /\ i < j
            /\ issues[t][i].severity = issues[t][j].severity
            /\ issues[t][i].issue_subtype # issues[t][j].issue_subtype
            /\ \A k \in 1..Len(issues[t]) :
                  issues[t][k].severity <= issues[t][i].severity
            /\ \A k \in 1..(i - 1) : issues[t][k].severity < issues[t][i].severity
            /\ primary_issue[t].result = <<issues[t][i]>>

\* ---- C23
\* the issues the validation loop of coroutine t has handled so far
Handled(t) == IF pc[t] = "validate" THEN 1..Len(vlog[t]) ELSE {}

\* the re-fetched SSID configuration as validation recorded it for issue k
Refetched(t, k) ==
    IF vlog[t][k].validated /\ IsSsidSubtype(vlog[t][k].before)
    THEN issues[t][k].validation_details.ssid_enabled ELSE "absent"

\* C23 as stated: with a device accessor, when the re-fetched configuration
\* shows the SSID enabled, every ssid_disabled or ssid_not_broadcasting
\* issue has exactly 30 subtracted from its severity; when it shows the
\* SSID disabled the severity is unchanged.
C23_BothSubtypesLowered ==
    \A t \in Tasks : \A k \in Handled(t) :
        /\ Refetched(t, k) = "true" =>
              issues[t][k].severity = vlog[t][k].before.severity - 30
        /\ Refetched(t, k) = "false" =>
              issues[t][k].severity = vlog[t][k].before.severity

\* C23: with a device accessor, when the re-fetched configuration shows the
\* SSID enabled, an ssid_disabled issue has exactly 30 subtracted from its
\* severity (90 becomes 60) and an ssid_not_broadcasting issue keeps its
\* severity (80); when the re-fetch shows the SSID disabled, or was not
\* made or raised, the severity of both is unchanged.
C23_DisabledIssueLowered ==
    \A t \in Tasks : \A k \in Handled(t) :
        IsSsidSubtype(vlog[t][k].before) =>
            LET before == vlog[t][k].before
            IN IF Refetched(t, k) = "true" /\ before.issue_subtype = "ssid_disabled"
               THEN before.severity = 90 /\ issues[t][k].severity = 60
               ELSE issues[t][k].severity = before.severity

\* a call whose ssid_disabled issue went from 90 to 60 on a re-fetch that
\* shows the SSID enabled
C23_Witness ==
    \E t \in Tasks : \E k \in Handled(t) :
        /\ vlog[t][k].before.issue_subtype = "ssid_disabled"
        /\ vlog[t][k].before.severity = 90
        /\ Refetched(t, k) = "true"
        /\ issues[t][k].severity = 60

\* ---- C24
\* C24: when the SSID is enabled, its dot11w setting has required=true and
\* the description holds client-compatibility language, troubleshoot
\* returns a result whose issues include pmf_required_compatibility with
\* severity 75.
C24_PmfRequiredCompatibility ==
    \A t \in Tasks :
        (/\ pc[t] = "done"
         /\ op[t] = "troubleshoot"
         /\ raised[t] # "KnowledgeBaseError in initialize"
         /\ nd[t].ssid.given
         /\ nd[t].ssid.enabled
         /\ nd[t].ssid.pmf_required
         /\ ClientIssuesMentioned(nd[t].desc))
        => /\ Returned(t)
           /\ \E i \in 1..Len(issues[t]) :
                 /\ issues[t][i].issue_subtype = "pmf_required_compatibility"
                 /\ issues[t][i].severity = 75

\* ---- C25
\* C25: when a device accessor is supplied and the network has at least one
\* wireless access point whose status is not 'online', the issues the
\* AP-configuration checks return include offline_access_points with
\* severity 85.
C25_OfflineAccessPoints ==
    (/\ ap_args # <<>>
     /\ ap_args[1].meraki_client
     /\ ~ap_args[1].devices.throws
     /\ \E i \in 1..Len(ap_args[1].devices.aps) :
           ap_args[1].devices.aps[i].mr /\ ~ap_args[1].devices.aps[i].online)
    => \E i \in 1..Len(ap_issues[1]) :
          /\ ap_issues[1][i].issue_subtype = "offline_access_points"
          /\ ap_issues[1][i].severity = 85

\* ---- C26
\* the severity of an issue that coroutine t already holds changes in this
\* step (a list taken anew by the next call does not count)
SeverityChanges(t) ==
    /\ pc[t] # "idle"
    /\ pc'[t] # "idle"
    /\ \E i \in 1..Min(Len(issues[t]), Len(issues'[t])) :
          issues'[t][i].severity # issues[t][i].severity

\* the severities of the issues of _analyze_issue_description, as
\* constructed and as returned, after this step
Constructed(t, i) == text_issues'[t].constructed[i].severity
ReturnedSeverity(t, i) == text_issues'[t].returned[i].severity

Validated(t) ==
    /\ "VALIDATE_ISSUES" \in StagesOf(t)
    /\ pc[t] \in {"recommend", "done"}
    /\ outcome[t] # "WifiTroubleshootingError"

\* C27: API validation never removes an issue: after the validation stage
\* the issue list holds the same issues in the same order as before it; no
\* severity is <= 0 after the adjustments, and the only decrease is 30 from
\* an ssid_disabled issue of severity 90.
C27_ValidationRemovesNothing ==
    \A t \in Tasks :
        /\ Validated(t) =>
              /\ Len(issues[t]) = Len(vlog[t])
              /\ \A k \in 1..Len(vlog[t]) :
                    /\ issues[t][k].issue_type = vlog[t][k].before.issue_type
                    /\ issues[t][k].issue_subtype = vlog[t][k].before.issue_subtype
        /\ \A k \in Handled(t) :
              /\ issues[t][k].severity > 0
              /\ issues[t][k].severity < vlog[t][k].before.severity =>
                    /\ vlog[t][k].before.issue_subtype = "ssid_disabled"
                    /\ vlog[t][k].before.severity = 90
                    /\ issues[t][k].severity = 60

\* the validation stage is over for a list of two issues, the first an
\* ssid_disabled issue lowered to 60: both are still there
C27_Witness ==
    \E t \in Tasks :
        /\ Validated(t)
        /\ Len(issues[t]) >= 2
        /\ Len(vlog[t]) = Len(issues[t])
        /\ vlog[t][1].before.issue_subtype = "ssid_disabled"
        /\ issues[t][1].issue_subtype = "ssid_disabled"
        /\ issues[t][1].severity = 60

InitFailed == { t \in Tasks : op[t] = "troubleshoot" /\ raised[t] = "KnowledgeBaseError in initialize" }

\* C29: a troubleshoot call in which knowledge_base.initialize() raises
\* KnowledgeBaseError ends with WifiTroubleshootingError having entered
\* no stage but the initialisation (no detection, validation or
\* recommendation step has run), and leaves the
\* flag false; while the flag is false every call made so far has invoked
\* initialize(), so the call after a failure tries again; and the flag is
\* true exactly when an initialize() has completed.
C29_FailedInitialization ==
    /\ \A t \in InitFailed :
          /\ outcome[t] = "WifiTroubleshootingError"
          /\ stages[t] = <<"INIT_KB">>
          /\ issues[t] = <<>> /\ vlog[t] = <<>> /\ recommendations[t] = <<>>
          /\ ~kb_initialized
    /\ ~kb_initialized => init_calls = calls
    /\ kb_initialized <=> init_ok >= 1

\* a troubleshoot call that invoked initialize() again after the call
\* before it had failed to initialise, and failed in turn
C29_Witness ==
    \E t \in InitFailed :
        /\ calls = 2 /\ init_calls = 2 /\ init_ok = 0
        /\ pc[t] = "done"

\* ---- C30
\* the timestamps of the points added so far
AddedTimestamps == { sd_added[i].timestamp : i \in 1..Len(sd_added) }

\* C30 (as stated): after any sequence of add_data_point calls on a
\* SpectrumData created with the default times, data_points holds the
\* points added in call order, start_time is the least and end_time the
\* greatest of their timestamps.
C30_StartAndEndTimes ==
    sd_added # <<>> =>
        /\ sd_data.data_points = sd_added
        /\ \A ts \in AddedTimestamps : sd_data.start_time <= ts /\ ts <= sd_data.end_time
        /\ sd_data.start_time \in AddedTimestamps
        /\ sd_data.end_time \in AddedTimestamps

====
